---- MODULE Spec2Model ----
(***************************************************************************)
(* A model of XymosTeX's DVI serializer (src/src/box_to_dvi.rs): the       *)
(* DVIFileWriter, its command buffer, its font registry and its page       *)
(* back-pointer chain.  The writer is single-threaded; every method call   *)
(* is one atomic step.                                                     *)
(***************************************************************************)
EXTENDS Integers, Sequences, FiniteSets, TLC

(***************************************************************************)
(* Bounds of the model.                                                    *)
(***************************************************************************)
\* the number of writer operations of one session
MaxOps == 3

(***************************************************************************)
(* Dimensions.  A Dimen is a signed number of scaled points;               *)
(* as_scaled_points() returns that number.                                 *)
(***************************************************************************)
\* one point in scaled points
Pt == 65536

\* (x * num / den) cut to a whole number of scaled points, towards zero
TruncMul(x, num, den) ==
    LET p == x * num
    IN  IF p >= 0 THEN p \div den ELSE -((-p) \div den)

(***************************************************************************)
(* Spring dimensions, glue and glue-set ratios.  order 0 is a plain Dimen, *)
(* orders 1..3 are fil, fill, filll.  A ratio's value is num/den.          *)
(***************************************************************************)
Dimen(sp) == [order |-> 0, amt |-> sp]
FilDimen(order, sp) == [order |-> order, amt |-> sp]
Glue(space, stretch, shrink) == [space |-> space, stretch |-> stretch, shrink |-> shrink]

GlueSetRatioKinds == {"Finite", "Fil", "Fill", "Filll"}
KindOrder(kind) ==
    CASE kind = "Finite" -> 0
      [] kind = "Fil"    -> 1
      [] kind = "Fill"   -> 2
      [] kind = "Filll"  -> 3

NoRatio == [some |-> FALSE, kind |-> "Finite", num |-> 0, den |-> 1]
SomeRatio(kind, num, den) == [some |-> TRUE, kind |-> kind, num |-> num, den |-> den]

\* GlueSetRatio::apply_to_glue: the stretch of the ratio's order when the
\* ratio is not negative, the shrink of the ratio's order when it is.
apply_to_glue(set_ratio, glue) ==
    LET spring == IF set_ratio.num >= 0 THEN glue.stretch ELSE glue.shrink
    IN  IF spring.order = KindOrder(set_ratio.kind)
        THEN glue.space + TruncMul(spring.amt, set_ratio.num, set_ratio.den)
        ELSE glue.space

(***************************************************************************)
(* DVI commands.                                                           *)
(***************************************************************************)
Push == [op |-> "Push"]
Pop == [op |-> "Pop"]
Eop == [op |-> "Eop"]
SetCharN(c) == [op |-> "SetCharN", c |-> c]
Set1(c) == [op |-> "Set1", c |-> c]
Right4(n) == [op |-> "Right4", n |-> n]
Down4(n) == [op |-> "Down4", n |-> n]
Fnt4(k) == [op |-> "Fnt4", k |-> k]
Bop(cs, pointer) == [op |-> "Bop", cs |-> cs, pointer |-> pointer]
FntDef4(font_num, checksum, scale, design_size, area, length, font_name) ==
    [op |-> "FntDef4", font_num |-> font_num, checksum |-> checksum,
     scale |-> scale, design_size |-> design_size, area |-> area,
     length |-> length, font_name |-> font_name]

\* the bytes of a FntDef4 besides its font name: the third Bop pointer of
\* tests::it_adds_pages is 103 = 45 + 6 + FntDef4Fixed + 5 + 5 + 2 + 20 + 1
FntDef4Fixed == 19

\* DVICommand::byte_size
byte_size(command) ==
    CASE command.op = "SetCharN" -> 1
      [] command.op = "Set1"     -> 2
      [] command.op = "Right4"   -> 5
      [] command.op = "Down4"    -> 5
      [] command.op = "Fnt4"     -> 5
      [] command.op = "FntDef4"  -> FntDef4Fixed + command.length
      [] command.op = "Push"     -> 1
      [] command.op = "Pop"      -> 1
      [] command.op = "Bop"      -> 45
      [] command.op = "Eop"      -> 1

(***************************************************************************)
(* Fonts.  get_metrics_for_font succeeds for the fonts that have a TFM     *)
(* file and fails for any other name.  The checksums stand for the values  *)
(* read from the TFM files.                                                *)
(***************************************************************************)
FontsWithMetrics == {"cmr10", "cmr7"}
Fonts == FontsWithMetrics \cup {"nofont"}

get_metrics_for_font(font) ==
    IF font \in FontsWithMetrics
    THEN [ok |-> TRUE, checksum |-> IF font = "cmr10" THEN 1010 ELSE 1007]
    ELSE [ok |-> FALSE, checksum |-> 0]

(***************************************************************************)
(* The writer.  The operators below take the writer as a record w of the   *)
(* struct's fields and return the writer after the call.  Two fields are   *)
(* bookkeeping of the model: panicked (a call has panicked: the session is *)
(* over) and char_log (for each character command, its place in commands   *)
(* and the font of the character it was emitted for).                      *)
(***************************************************************************)
VARIABLES commands, stack_depth, last_page_start, curr_font_num, font_nums,
          next_font_num, panicked, char_log, last_op, n_ops

\* The call of the math-list parser or translator under check and what it
\* returned; both are NoCall in a session of the writer.
VARIABLES math_in, math_out

\* The call of the box packager under check and the box it returned; both
\* are NoCall in any other session.
VARIABLES pack_in, pack_out

\* The run of the parser or of the translator that is followed step by
\* step, as the record of its locals; NoCall in any other session.
VARIABLES run

vars == <<commands, stack_depth, last_page_start, curr_font_num, font_nums,
          next_font_num, panicked, char_log, last_op, n_ops, math_in, math_out,
          pack_in, pack_out, run>>

NoCall == [call |-> "none"]

\* DVIFileWriter::new
new ==
    [commands |-> <<>>, stack_depth |-> 0, last_page_start |-> -1,
     curr_font_num |-> -1, font_nums |-> <<>>, next_font_num |-> 0,
     panicked |-> FALSE, char_log |-> <<>>]

Writer ==
    [commands |-> commands, stack_depth |-> stack_depth,
     last_page_start |-> last_page_start, curr_font_num |-> curr_font_num,
     font_nums |-> font_nums, next_font_num |-> next_font_num,
     panicked |-> panicked, char_log |-> char_log]

push(w, command) == [w EXCEPT !.commands = Append(@, command)]

\* HashMap::insert
insert(map, key, value) ==
    [k \in DOMAIN map \cup {key} |-> IF k = key THEN value ELSE map[k]]

\* font.len() as u8
NameLength(font) == Len(font) % 256

\* add_font_def that does not register the font in font_nums
add_font_def_unregistered(w, font) ==
    LET font_num == w.next_font_num
        w1 == [w EXCEPT !.next_font_num = w.next_font_num + 1]
        metrics == get_metrics_for_font(font)
    IN  IF ~metrics.ok
        THEN [w |-> [w1 EXCEPT !.panicked = TRUE], font_num |-> font_num]
        ELSE [w |-> push(w1, FntDef4(font_num, metrics.checksum, 655360, 655360,
                                     0, NameLength(font), font)),
              font_num |-> font_num]

\* add_font_def that registers the font before it loads the metrics
add_font_def_registers_first(w, font) ==
    LET font_num == w.next_font_num
        w1 == [w EXCEPT !.next_font_num = w.next_font_num + 1,
                        !.font_nums = insert(w.font_nums, font, font_num)]
        metrics == get_metrics_for_font(font)
    IN  IF ~metrics.ok
        THEN [w |-> [w1 EXCEPT !.panicked = TRUE], font_num |-> font_num]
        ELSE [w |-> push(w1, FntDef4(font_num, metrics.checksum, 655360, 655360,
                                     0, NameLength(font), font)),
              font_num |-> font_num]

\* add_font_def that writes the name length of cmr10 for every font
add_font_def_length_of_cmr10(w, font) ==
    LET font_num == w.next_font_num
        w1 == [w EXCEPT !.next_font_num = w.next_font_num + 1]
        metrics == get_metrics_for_font(font)
    IN  IF ~metrics.ok
        THEN [w |-> [w1 EXCEPT !.panicked = TRUE], font_num |-> font_num]
        ELSE [w |-> [push(w1, FntDef4(font_num, metrics.checksum, 655360, 655360,
                                      0, NameLength("cmr10"), font))
                       EXCEPT !.font_nums = insert(w1.font_nums, font, font_num)],
              font_num |-> font_num]

\* DVIFileWriter::add_font_def: the writer after the call and the number
\* it returns
add_font_def(w, font) ==
    LET font_num == w.next_font_num
        w1 == [w EXCEPT !.next_font_num = w.next_font_num + 1]
        metrics == get_metrics_for_font(font)
    IN  IF ~metrics.ok
        THEN [w |-> [w1 EXCEPT !.panicked = TRUE], font_num |-> font_num]
        ELSE [w |-> [push(w1, FntDef4(font_num, metrics.checksum, 655360, 655360,
                                      0, NameLength(font), font))
                       EXCEPT !.font_nums = insert(w1.font_nums, font, font_num)],
              font_num |-> font_num]

\* switch_to_font that emits Fnt4 without comparing with curr_font_num
switch_to_font_always(w, font) ==
    LET r == IF font \in DOMAIN w.font_nums
             THEN [w |-> w, font_num |-> w.font_nums[font]]
             ELSE add_font_def(w, font)
    IN  IF r.w.panicked
        THEN r.w
        ELSE [push(r.w, Fnt4(r.font_num)) EXCEPT !.curr_font_num = r.font_num]

\* switch_to_font that does not record the font it switched to
switch_to_font_forgets(w, font) ==
    LET r == IF font \in DOMAIN w.font_nums
             THEN [w |-> w, font_num |-> w.font_nums[font]]
             ELSE add_font_def(w, font)
    IN  IF r.w.panicked
        THEN r.w
        ELSE IF r.font_num # r.w.curr_font_num
             THEN push(r.w, Fnt4(r.font_num))
             ELSE r.w

\* DVIFileWriter::switch_to_font
switch_to_font(w, font) ==
    LET r == IF font \in DOMAIN w.font_nums
             THEN [w |-> w, font_num |-> w.font_nums[font]]
             ELSE add_font_def(w, font)
    IN  IF r.w.panicked
        THEN r.w
        ELSE IF r.font_num # r.w.curr_font_num
             THEN [push(r.w, Fnt4(r.font_num)) EXCEPT !.curr_font_num = r.font_num]
             ELSE r.w

\* the command of a character: chr is cast to u8
char_command(chr) ==
    IF (chr % 256) < 128 THEN SetCharN(chr % 256) ELSE Set1(chr % 256)

\* move_amount that ignores the ratio
move_amount_natural(glue, glue_set_ratio) == glue.space

\* move_amount that stretches fully when there is no ratio
move_amount_none_stretched(glue, glue_set_ratio) ==
    IF glue_set_ratio.some
    THEN apply_to_glue(glue_set_ratio, glue)
    ELSE glue.space + glue.stretch.amt

\* move_amount that keeps the natural space when the ratio shrinks
move_amount_never_shrinks(glue, glue_set_ratio) ==
    IF glue_set_ratio.some /\ glue_set_ratio.num >= 0
    THEN apply_to_glue(glue_set_ratio, glue)
    ELSE glue.space

\* the amount a skip moves by, in a list set with glue_set_ratio
move_amount(glue, glue_set_ratio) ==
    IF glue_set_ratio.some
    THEN apply_to_glue(glue_set_ratio, glue)
    ELSE glue.space

\* the advance after a box of a horizontal list
box_advance_h(tex_box) == tex_box.width

\* the advance after a box of a vertical list, without the depth
box_advance_v_height_only(tex_box) == tex_box.height

\* the advance after a box of a vertical list
box_advance_v(tex_box) == tex_box.height + tex_box.depth

RECURSIVE add_box(_, _)
RECURSIVE add_horizontal_list_elem(_, _, _)
RECURSIVE add_vertical_list_elem(_, _, _)
RECURSIVE add_horizontal_list(_, _, _, _)
RECURSIVE add_vertical_list(_, _, _, _)

\* DVIFileWriter::add_horizontal_list_elem
add_horizontal_list_elem(w, elem, glue_set_ratio) ==
    CASE elem.type = "Char" ->
           LET command == char_command(elem.chr)
               w1 == switch_to_font(w, elem.font)
           IN  IF w1.panicked
               THEN w1
               ELSE [push(w1, command) EXCEPT !.char_log =
                       Append(@, [at |-> Len(w1.commands) + 1, font |-> elem.font])]
      [] elem.type = "HSkip" ->
           push(w, Right4(move_amount(elem.glue, glue_set_ratio)))
      [] elem.type = "Box" ->
           LET w1 == add_box(w, elem.box)
           IN  IF w1.panicked THEN w1 ELSE push(w1, Right4(box_advance_h(elem.box)))

\* DVIFileWriter::add_vertical_list_elem
add_vertical_list_elem(w, elem, glue_set_ratio) ==
    CASE elem.type = "VSkip" ->
           push(w, Down4(move_amount(elem.glue, glue_set_ratio)))
      [] elem.type = "Box" ->
           LET w1 == add_box(w, elem.box)
           IN  IF w1.panicked THEN w1 ELSE push(w1, Down4(box_advance_v(elem.box)))

\* the loop over hbox.list taking the elements from the last to the first
add_horizontal_list_right_to_left(w, list, i, glue_set_ratio) ==
    IF i > Len(list) \/ w.panicked
    THEN w
    ELSE add_horizontal_list(
             add_horizontal_list_elem(w, list[Len(list) + 1 - i], glue_set_ratio),
             list, i + 1, glue_set_ratio)

\* for elem in &hbox.list, from element i on
add_horizontal_list(w, list, i, glue_set_ratio) ==
    IF i > Len(list) \/ w.panicked
    THEN w
    ELSE add_horizontal_list(add_horizontal_list_elem(w, list[i], glue_set_ratio),
                             list, i + 1, glue_set_ratio)

\* for elem in &vbox.list, from element i on
add_vertical_list(w, list, i, glue_set_ratio) ==
    IF i > Len(list) \/ w.panicked
    THEN w
    ELSE add_vertical_list(add_vertical_list_elem(w, list[i], glue_set_ratio),
                           list, i + 1, glue_set_ratio)

\* add_box that does not emit the closing Pop
add_box_without_pop(w, tex_box) ==
    LET w1 == push(w, Push)
    IN  IF tex_box.variant = "HorizontalBox"
        THEN add_horizontal_list(w1, tex_box.list, 1, tex_box.glue_set_ratio)
        ELSE add_vertical_list(w1, tex_box.list, 1, tex_box.glue_set_ratio)

\* add_box that sets its list at natural size, without the box's ratio
add_box_natural(w, tex_box) ==
    LET w1 == push(w, Push)
        w2 == IF tex_box.variant = "HorizontalBox"
              THEN add_horizontal_list(w1, tex_box.list, 1, NoRatio)
              ELSE add_vertical_list(w1, tex_box.list, 1, NoRatio)
    IN  IF w2.panicked THEN w2 ELSE push(w2, Pop)

\* add_box that forgets the current font when it leaves the box
add_box_forgets_font(w, tex_box) ==
    LET w1 == push(w, Push)
        w2 == IF tex_box.variant = "HorizontalBox"
              THEN add_horizontal_list(w1, tex_box.list, 1, tex_box.glue_set_ratio)
              ELSE add_vertical_list(w1, tex_box.list, 1, tex_box.glue_set_ratio)
    IN  IF w2.panicked THEN w2 ELSE [push(w2, Pop) EXCEPT !.curr_font_num = -1]

\* add_box that emits its Pop right after its Push, before the list
add_box_closing_before_list(w, tex_box) ==
    LET w1 == push(push(w, Push), Pop)
    IN  IF tex_box.variant = "HorizontalBox"
        THEN add_horizontal_list(w1, tex_box.list, 1, tex_box.glue_set_ratio)
        ELSE add_vertical_list(w1, tex_box.list, 1, tex_box.glue_set_ratio)

\* DVIFileWriter::add_box
add_box(w, tex_box) ==
    LET w1 == push(w, Push)
        w2 == IF tex_box.variant = "HorizontalBox"
              THEN add_horizontal_list(w1, tex_box.list, 1, tex_box.glue_set_ratio)
              ELSE add_vertical_list(w1, tex_box.list, 1, tex_box.glue_set_ratio)
    IN  IF w2.panicked THEN w2 ELSE push(w2, Pop)

RECURSIVE SumByteSize(_, _)
\* commands.iter().map(|command| command.byte_size()).sum(), over the first n
SumByteSize(cmds, n) ==
    IF n = 0 THEN 0 ELSE SumByteSize(cmds, n - 1) + byte_size(cmds[n])

\* the byte offset at which the next command will be written
page_start(w) == SumByteSize(w.commands, Len(w.commands))

\* add_page whose Bop points at itself: the pointer is read after
\* last_page_start was updated
add_page_pointer_after_update(w, page, cs) ==
    LET w1 == [w EXCEPT !.last_page_start = page_start(w)]
        w2 == push(w1, Bop(cs, w1.last_page_start))
        w3 == [w2 EXCEPT !.curr_font_num = -1]
        w4 == add_box(w3, page)
    IN  IF w4.panicked THEN w4 ELSE push(w4, Eop)

\* add_page that keeps the current font of the page before
add_page_without_font_reset(w, page, cs) ==
    LET old_last_page_start == w.last_page_start
        w1 == [w EXCEPT !.last_page_start = page_start(w)]
        w2 == push(w1, Bop(cs, old_last_page_start))
        w4 == add_box(w2, page)
    IN  IF w4.panicked THEN w4 ELSE push(w4, Eop)

\* add_page that counts the commands before the page, not their bytes
add_page_offset_in_commands(w, page, cs) ==
    LET old_last_page_start == w.last_page_start
        w1 == [w EXCEPT !.last_page_start = Len(w.commands)]
        w2 == push(w1, Bop(cs, old_last_page_start))
        w3 == [w2 EXCEPT !.curr_font_num = -1]
        w4 == add_box(w3, page)
    IN  IF w4.panicked THEN w4 ELSE push(w4, Eop)

\* add_page that takes the offset after it has written the Bop
add_page_offset_after_bop(w, page, cs) ==
    LET old_last_page_start == w.last_page_start
        w1 == push(w, Bop(cs, old_last_page_start))
        w2 == [w1 EXCEPT !.last_page_start = page_start(w1)]
        w3 == [w2 EXCEPT !.curr_font_num = -1]
        w4 == add_box(w3, page)
    IN  IF w4.panicked THEN w4 ELSE push(w4, Eop)

\* add_page that starts the page with no font registered
add_page_clearing_fonts(w, page, cs) ==
    LET old_last_page_start == w.last_page_start
        w1 == [w EXCEPT !.last_page_start = page_start(w)]
        w2 == push(w1, Bop(cs, old_last_page_start))
        w3 == [w2 EXCEPT !.curr_font_num = -1, !.font_nums = <<>>, !.next_font_num = 0]
        w4 == add_box(w3, page)
    IN  IF w4.panicked THEN w4 ELSE push(w4, Eop)

\* DVIFileWriter::add_page
add_page(w, page, cs) ==
    LET old_last_page_start == w.last_page_start
        w1 == [w EXCEPT !.last_page_start = page_start(w)]
        w2 == push(w1, Bop(cs, old_last_page_start))
        w3 == [w2 EXCEPT !.curr_font_num = -1]
        w4 == add_box(w3, page)
    IN  IF w4.panicked THEN w4 ELSE push(w4, Eop)

(***************************************************************************)
(* Boxes and list elements, and the inputs of the model.                   *)
(***************************************************************************)
Char(chr, font) == [type |-> "Char", chr |-> chr, font |-> font]
HSkip(glue) == [type |-> "HSkip", glue |-> glue]
VSkip(glue) == [type |-> "VSkip", glue |-> glue]
BoxElem(tex_box) == [type |-> "Box", box |-> tex_box]

HorizontalBox(height, depth, width, list, glue_set_ratio) ==
    [variant |-> "HorizontalBox", height |-> height, depth |-> depth,
     width |-> width, list |-> list, glue_set_ratio |-> glue_set_ratio]
VerticalBox(height, depth, width, list, glue_set_ratio) ==
    [variant |-> "VerticalBox", height |-> height, depth |-> depth,
     width |-> width, list |-> list, glue_set_ratio |-> glue_set_ratio]

\* glue with finite stretch and shrink, and glue with fil stretch
GlueFinite == Glue(2 * Pt, Dimen(3 * Pt), Dimen(Pt))
GlueFil == Glue(2 * Pt, FilDimen(1, 3 * Pt), Dimen(0))

\* a box of one character; its dimensions are not those of its contents
BoxG == HorizontalBox(4 * Pt, 2 * Pt, 5 * Pt, <<Char(103, "cmr10")>>, NoRatio)
\* a box of one character in the other font
BoxSeven == HorizontalBox(3 * Pt, 0, 4 * Pt, <<Char(97, "cmr7")>>, NoRatio)
\* a stretched box with both fonts, a skip and a nested box
BoxMixed ==
    HorizontalBox(7 * Pt, Pt, 30 * Pt,
                  <<Char(97, "cmr10"), HSkip(GlueFinite), Char(97, "cmr7"),
                    BoxElem(BoxG), Char(200, "cmr7")>>,
                  SomeRatio("Finite", 3, 2))
\* a shrunk vertical box with a nested box
BoxV ==
    VerticalBox(9 * Pt, Pt, 6 * Pt, <<BoxElem(BoxG), VSkip(GlueFinite)>>,
                SomeRatio("Finite", -1, 2))
\* a box with a character of a font that has no metrics
BoxNoFont ==
    HorizontalBox(4 * Pt, 0, 12 * Pt,
                  <<Char(97, "cmr7"), Char(97, "nofont"), Char(97, "cmr10")>>, NoRatio)

PageEmpty == VerticalBox(0, 0, 0, <<>>, NoRatio)
PageG == VerticalBox(4 * Pt, 2 * Pt, 5 * Pt, <<BoxElem(BoxG)>>, NoRatio)
PageSeven == VerticalBox(3 * Pt, 0, 4 * Pt, <<BoxElem(BoxSeven)>>, NoRatio)
PageMixed ==
    VerticalBox(40 * Pt, 0, 30 * Pt,
                <<BoxElem(BoxMixed), VSkip(GlueFil), BoxElem(BoxV)>>,
                SomeRatio("Fil", 1, 2))
PageNoFont ==
    VerticalBox(10 * Pt, 0, 12 * Pt,
                <<BoxElem(BoxG), BoxElem(BoxNoFont), VSkip(GlueFinite)>>, NoRatio)
\* the first page of tests::it_adds_pages: a line with g, two skips and a
\* line with a
BoxA == HorizontalBox(3 * Pt, 0, 5 * Pt, <<Char(97, "cmr10")>>, NoRatio)
PageGA ==
    VerticalBox(9 * Pt, 0, 5 * Pt,
                <<BoxElem(BoxG), VSkip(Glue(0, Dimen(0), Dimen(0))),
                  VSkip(Glue(376833, Dimen(0), Dimen(0))), BoxElem(BoxA)>>,
                NoRatio)

\* the boxes given to add_page (a page may be a horizontal box) and add_box
Pages == {PageEmpty, PageG, PageSeven, PageMixed, PageNoFont, BoxMixed, PageGA}
Boxes == {BoxMixed, BoxV}
\* the count registers given to add_page
Counts == {<<1, 0, 0, 0, 0, 0, 0, 0, 0, 0>>}
\* the (element, ratio) pairs given to add_horizontal_list_elem
HorizontalInputs ==
    {<<Char(97, "cmr10"), NoRatio>>, <<Char(200, "cmr7"), NoRatio>>,
     <<Char(300, "cmr10"), NoRatio>>,
     <<HSkip(GlueFinite), SomeRatio("Finite", 3, 2)>>,
     <<BoxElem(BoxG), NoRatio>>, <<BoxElem(BoxV), SomeRatio("Fil", 2, 1)>>}
\* the (element, ratio) pairs given to add_vertical_list_elem
VerticalInputs ==
    {<<VSkip(GlueFinite), SomeRatio("Finite", -1, 2)>>,
     <<BoxElem(BoxSeven), NoRatio>>, <<BoxElem(BoxV), SomeRatio("Fil", 2, 1)>>}

(***************************************************************************)
(* The state machine: a session of a writer.  last_op is the last call,    *)
(* the writer before it and the call before it; n_ops counts the calls.    *)
(***************************************************************************)
NoOp == [name |-> "new", arg |-> <<>>, ratio |-> NoRatio, pre |-> new,
         prev_name |-> "new", prev_arg |-> <<>>]

Install(w) ==
    /\ commands' = w.commands
    /\ stack_depth' = w.stack_depth
    /\ last_page_start' = w.last_page_start
    /\ curr_font_num' = w.curr_font_num
    /\ font_nums' = w.font_nums
    /\ next_font_num' = w.next_font_num
    /\ panicked' = w.panicked
    /\ char_log' = w.char_log

Init ==
    /\ commands = new.commands
    /\ stack_depth = new.stack_depth
    /\ last_page_start = new.last_page_start
    /\ curr_font_num = new.curr_font_num
    /\ font_nums = new.font_nums
    /\ next_font_num = new.next_font_num
    /\ panicked = new.panicked
    /\ char_log = new.char_log
    /\ last_op = NoOp
    /\ n_ops = 0
    /\ math_in = NoCall
    /\ math_out = NoCall
    /\ pack_in = NoCall
    /\ pack_out = NoCall
    /\ run = NoCall

Called(name, arg, ratio) ==
    /\ last_op' = [name |-> name, arg |-> arg, ratio |-> ratio, pre |-> Writer,
                    prev_name |-> last_op.name, prev_arg |-> last_op.arg]
    /\ n_ops' = n_ops + 1
    /\ UNCHANGED <<math_in, math_out, pack_in, pack_out, run>>

CanCall == n_ops < MaxOps /\ ~panicked

SwitchToFont ==
    /\ CanCall
    /\ \E font \in Fonts :
         /\ Install(switch_to_font(Writer, font))
         /\ Called("switch_to_font", font, NoRatio)

AddHorizontalListElem ==
    /\ CanCall
    /\ \E in \in HorizontalInputs :
         /\ Install(add_horizontal_list_elem(Writer, in[1], in[2]))
         /\ Called("add_horizontal_list_elem", in[1], in[2])

AddVerticalListElem ==
    /\ CanCall
    /\ \E in \in VerticalInputs :
         /\ Install(add_vertical_list_elem(Writer, in[1], in[2]))
         /\ Called("add_vertical_list_elem", in[1], in[2])

AddBox ==
    /\ CanCall
    /\ \E tex_box \in Boxes :
         /\ Install(add_box(Writer, tex_box))
         /\ Called("add_box", tex_box, NoRatio)

AddPage ==
    /\ CanCall
    /\ \E page \in Pages, cs \in Counts :
         /\ Install(add_page(Writer, page, cs))
         /\ Called("add_page", <<page, cs>>, NoRatio)

Next ==
    \/ SwitchToFont
    \/ AddHorizontalListElem
    \/ AddVerticalListElem
    \/ AddBox
    \/ AddPage

Spec == Init /\ [][Next]_vars

(***************************************************************************)
(* Reading the command buffer.                                             *)
(***************************************************************************)
Idx == 1..Len(commands)
OpAt(i) == commands[i].op
IdxOf(name) == {i \in Idx : OpAt(i) = name}
\* the number of commands name strictly between i and j
CountBetween(name, i, j) == Cardinality({k \in (i + 1)..(j - 1) : OpAt(k) = name})
\* no command name strictly between i and j
NoneBetween(name, i, j) == \A k \in (i + 1)..(j - 1) : OpAt(k) # name
Max(S) == CHOOSE m \in S : \A k \in S : k <= m
\* the commands the last call appended
Appended == SubSeq(commands, Len(last_op.pre.commands) + 1, Len(commands))
Completed(name) == last_op.name = name /\ ~panicked

(***************************************************************************)
(* C1: between a Bop and its matching Eop (the next Eop after it) there    *)
(* are exactly as many Push as Pop commands.                               *)
(***************************************************************************)
C1_PushPopBalancedInPage ==
    \A i \in IdxOf("Bop") : \A j \in IdxOf("Eop") :
        (i < j /\ NoneBetween("Eop", i, j))
            => CountBetween("Push", i, j) = CountBetween("Pop", i, j)

\* two completed pages, one of them with boxes nested three deep
C1_Witness ==
    /\ Cardinality(IdxOf("Eop")) >= 2
    /\ \E i \in IdxOf("Bop") : \E j \in IdxOf("Eop") :
         /\ i < j /\ NoneBetween("Eop", i, j)
         /\ CountBetween("Push", i, j) >= 4
         /\ \E k \in (i + 1)..(j - 1) :
              CountBetween("Push", i, k + 1) - CountBetween("Pop", i, k + 1) = 3

(***************************************************************************)
(* C2: the first Bop carries pointer -1; every later Bop carries the byte  *)
(* offset of the Bop before it, the sum of byte_size over the commands     *)
(* before that Bop; last_page_start is the offset of the last Bop.         *)
(***************************************************************************)
OffsetOf(i) == SumByteSize(commands, i - 1)
PrevBop(i) == Max({k \in IdxOf("Bop") : k < i})

C2_PagePointerChain ==
    /\ \A i \in IdxOf("Bop") :
         commands[i].pointer =
             IF \E k \in IdxOf("Bop") : k < i THEN OffsetOf(PrevBop(i)) ELSE -1
    /\ last_page_start =
             IF IdxOf("Bop") = {} THEN -1 ELSE OffsetOf(Max(IdxOf("Bop")))

\* three pages with three different pointers, the last one not 0
C2_Witness ==
    /\ Cardinality(IdxOf("Bop")) = 3
    /\ Cardinality({commands[i].pointer : i \in IdxOf("Bop")}) = 3
    /\ commands[Max(IdxOf("Bop"))].pointer > 45

(***************************************************************************)
(* C3: a completed switch_to_font(name) appends Fnt4(n), n the number of   *)
(* name, exactly when n differs from curr_font_num before the call, and    *)
(* leaves curr_font_num = n; it appends nothing when n is the current font *)
(* already, as in a second call with the same name right after the first.  *)
(***************************************************************************)
InSeq(x, seq) == \E i \in 1..Len(seq) : seq[i] = x

C3_SwitchToFont ==
    Completed("switch_to_font") =>
        LET n == font_nums[last_op.arg]
        IN  /\ InSeq(Fnt4(n), Appended) <=> n # last_op.pre.curr_font_num
            /\ \A i \in 1..Len(Appended) :
                 Appended[i].op = "Fnt4" => i = Len(Appended) /\ Appended[i].k = n
            /\ curr_font_num = n
            /\ n = last_op.pre.curr_font_num => Appended = <<>>
            /\ (last_op.prev_name = "switch_to_font" /\ last_op.prev_arg = last_op.arg)
                   => Appended = <<>>

\* a second call with the same name right after the first, and a call that
\* had to switch
C3_Witness ==
    /\ Completed("switch_to_font")
    /\ last_op.prev_name = "switch_to_font"
    /\ last_op.prev_arg = last_op.arg
    /\ last_op.pre.commands # <<>>
    /\ \E i \in Idx : OpAt(i) = "Fnt4" /\ commands[i].k # curr_font_num

(***************************************************************************)
(* C4 as stated: two Fnt4 commands with no other Fnt4 between them carry   *)
(* different font numbers.                                                 *)
(***************************************************************************)
C4_Original ==
    \A i \in IdxOf("Fnt4") : \A j \in IdxOf("Fnt4") :
        (i < j /\ NoneBetween("Fnt4", i, j)) => commands[i].k # commands[j].k

(***************************************************************************)
(* C4 as amended: two Fnt4 commands with no other Fnt4 and no Bop between  *)
(* them carry different font numbers.                                      *)
(***************************************************************************)
C4_NoRedundantFnt4OnPage ==
    \A i \in IdxOf("Fnt4") : \A j \in IdxOf("Fnt4") :
        (i < j /\ NoneBetween("Fnt4", i, j) /\ NoneBetween("Bop", i, j))
            => commands[i].k # commands[j].k

\* two successive Fnt4 of one page, and two successive Fnt4 of the same
\* font on either side of a Bop
C4_Witness ==
    /\ \E i \in IdxOf("Fnt4") : \E j \in IdxOf("Fnt4") :
         i < j /\ NoneBetween("Fnt4", i, j) /\ NoneBetween("Bop", i, j)
    /\ \E i \in IdxOf("Fnt4") : \E j \in IdxOf("Fnt4") :
         /\ i < j /\ NoneBetween("Fnt4", i, j) /\ ~NoneBetween("Bop", i, j)
         /\ commands[i].k = commands[j].k

(***************************************************************************)
(* C5: the current font is unset at each Bop: the font in force after a    *)
(* Bop is that of the last Fnt4 after it (-1 when there is none), and      *)
(* every character emitted after a Bop has, between that Bop and itself, a *)
(* Fnt4 selecting its font, whatever the font at the end of the page       *)
(* before.                                                                 *)
(***************************************************************************)
CharLog == {char_log[i] : i \in 1..Len(char_log)}
Fnt4Between(i, j) == {k \in IdxOf("Fnt4") : i < k /\ k < j}

C5_FontSelectedOnEachPage ==
    /\ \A e \in CharLog :
         (\E b \in IdxOf("Bop") : b < e.at) =>
             LET fs == Fnt4Between(PrevBop(e.at), e.at)
             IN  fs # {} /\ commands[Max(fs)].k = font_nums[e.font]
    /\ IdxOf("Bop") # {} =>
         LET fs == Fnt4Between(Max(IdxOf("Bop")), Len(commands) + 1)
         IN  curr_font_num = IF fs = {} THEN -1 ELSE commands[Max(fs)].k

\* a page whose first character is in the font that was current at the end
\* of the page before
C5_Witness ==
    \E b \in IdxOf("Bop") : \E e \in CharLog :
        /\ b < e.at
        /\ \A e2 \in CharLog : e2.at <= b \/ e2.at >= e.at
        /\ Fnt4Between(0, b) # {}
        /\ commands[Max(Fnt4Between(0, b))].k = font_nums[e.font]
        /\ Cardinality(Fnt4Between(b, e.at)) = 1

(***************************************************************************)
(* C6: the FntDef4 commands carry the numbers 0, 1, 2, ... in the order of *)
(* the stream; no font name is defined twice; each FntDef4 is followed at  *)
(* once by the first Fnt4 of its number; and every character comes after   *)
(* the FntDef4 of its font, whose number is the one registered for it.     *)
(***************************************************************************)
C6_FontDefinedOnceAtFirstUse ==
    LET defs == IdxOf("FntDef4")
    IN  /\ \A i \in defs :
             commands[i].font_num = Cardinality({k \in defs : k < i})
        /\ \A i \in defs : \A j \in defs :
             commands[i].font_name = commands[j].font_name => i = j
        /\ \A i \in defs :
             /\ i < Len(commands)
             /\ commands[i + 1] = Fnt4(commands[i].font_num)
             /\ \A k \in Fnt4Between(0, i) : commands[k].k # commands[i].font_num
        /\ \A e \in CharLog :
             /\ e.font \in DOMAIN font_nums
             /\ \E i \in defs :
                  /\ i < e.at
                  /\ commands[i].font_name = e.font
                  /\ commands[i].font_num = font_nums[e.font]

\* two fonts defined, and the first of them selected on two pages
C6_Witness ==
    /\ Cardinality(IdxOf("FntDef4")) = 2
    /\ Cardinality(IdxOf("Bop")) >= 2
    /\ \A b \in IdxOf("Bop") :
         \E k \in IdxOf("Fnt4") : k > b /\ commands[k].k = 0 /\ NoneBetween("Bop", b, k)

(***************************************************************************)
(* C7 as stated: add_horizontal_list_elem on Char{chr, font} switches to   *)
(* font and then emits SetCharN(chr) when chr < 128 and Set1(chr)          *)
(* otherwise, for every character code chr.                                *)
(***************************************************************************)
C7_CharCommandForEveryCode ==
    (Completed("add_horizontal_list_elem") /\ last_op.arg.type = "Char") =>
        LET chr == last_op.arg.chr
        IN  /\ Appended # <<>>
            /\ Appended[Len(Appended)] = IF chr < 128 THEN SetCharN(chr) ELSE Set1(chr)
            /\ curr_font_num = font_nums[last_op.arg.font]

(***************************************************************************)
(* C10: a Box element appends what add_box appends for the inner box, a    *)
(* balanced segment from Push to Pop, and then Right4(width) in a          *)
(* horizontal list and Down4(height + depth) in a vertical list, with the  *)
(* dimensions stored in the inner box.                                     *)
(***************************************************************************)
BracketedBox(inner, advance) ==
    LET n == Len(Appended)
    IN  /\ n >= 3
        /\ Appended[1] = Push
        /\ Appended[n - 1] = Pop
        /\ Appended[n] = advance
        /\ SubSeq(commands, 1, Len(commands) - 1) = add_box(last_op.pre, inner).commands
        /\ LET at == Len(last_op.pre.commands)
           IN  CountBetween("Push", at, at + n) = CountBetween("Pop", at, at + n)

C10_BoxElementAdvance ==
    /\ (Completed("add_horizontal_list_elem") /\ last_op.arg.type = "Box") =>
           BracketedBox(last_op.arg.box, Right4(last_op.arg.box.width))
    /\ (Completed("add_vertical_list_elem") /\ last_op.arg.type = "Box") =>
           BracketedBox(last_op.arg.box,
                        Down4(last_op.arg.box.height + last_op.arg.box.depth))

\* a box in a vertical list after a box in a horizontal list; the stored
\* dimensions of both differ from the sizes of their contents
C10_Witness ==
    /\ Completed("add_vertical_list_elem")
    /\ last_op.arg = BoxElem(BoxV)
    /\ commands[Len(commands)] = Down4(10 * Pt)
    /\ last_op.prev_name = "add_horizontal_list_elem"
    /\ last_op.prev_arg = BoxElem(BoxG)
    /\ InSeq(Right4(5 * Pt), commands)

(***************************************************************************)
(* The skip specification: one skip, of any glue and ratio of the sets     *)
(* below, set by add_horizontal_list_elem or add_vertical_list_elem on a   *)
(* new writer.                                                             *)
(***************************************************************************)
SkipSprings ==
    {Dimen(0), Dimen(3), Dimen(2 * Pt), Dimen(3 * Pt),
     FilDimen(1, 2 * Pt), FilDimen(1, 3 * Pt), FilDimen(2, Pt), FilDimen(3, Pt)}
SkipGlues ==
    {Glue(space, stretch, shrink) :
        space \in {2 * Pt, 4 * Pt, 6 * Pt}, stretch \in SkipSprings, shrink \in SkipSprings}
SkipRatios ==
    {NoRatio} \cup
    {SomeRatio(kind, v[1], v[2]) :
        kind \in GlueSetRatioKinds, v \in {<<2, 1>>, <<3, 2>>, <<-3, 2>>, <<-1, 2>>}}

InitSkip ==
    /\ commands = new.commands
    /\ stack_depth = new.stack_depth
    /\ last_page_start = new.last_page_start
    /\ curr_font_num = new.curr_font_num
    /\ font_nums = new.font_nums
    /\ next_font_num = new.next_font_num
    /\ panicked = new.panicked
    /\ char_log = new.char_log
    /\ \E glue \in SkipGlues, ratio \in SkipRatios :
         last_op = [name |-> "new", arg |-> glue, ratio |-> ratio, pre |-> new,
                    prev_name |-> "new", prev_arg |-> <<>>]
    /\ n_ops = 0
    /\ math_in = NoCall
    /\ math_out = NoCall
    /\ pack_in = NoCall
    /\ pack_out = NoCall
    /\ run = NoCall

SetHSkip ==
    /\ last_op.name = "new"
    /\ Install(add_horizontal_list_elem(Writer, HSkip(last_op.arg), last_op.ratio))
    /\ Called("add_horizontal_list_elem", HSkip(last_op.arg), last_op.ratio)

SetVSkip ==
    /\ last_op.name = "new"
    /\ Install(add_vertical_list_elem(Writer, VSkip(last_op.arg), last_op.ratio))
    /\ Called("add_vertical_list_elem", VSkip(last_op.arg), last_op.ratio)

NextSkip ==
    \/ SetHSkip
    \/ SetVSkip

SpecSkip == InitSkip /\ [][NextSkip]_vars

\* a skip has been set: the buffer holds its one command
SkipSet == last_op.name # "new"
SkipGlue == last_op.arg.glue
\* the operand of the Right4 or Down4
Moved == commands[1].n
SkipCommand ==
    /\ Len(commands) = 1
    /\ commands[1].op = IF last_op.name = "add_horizontal_list_elem"
                        THEN "Right4" ELSE "Down4"
Abs(x) == IF x >= 0 THEN x ELSE -x
\* q is num/den times amt, cut to a whole number towards zero
IsTruncatedProduct(q, amt, num, den) ==
    /\ den * Abs(q) <= Abs(amt * num)
    /\ Abs(amt * num) < den * (Abs(q) + 1)
    /\ (q >= 0 /\ amt * num >= 0) \/ (q <= 0 /\ amt * num <= 0)
\* the spring the sign of the ratio selects
Selected(glue, ratio) == IF ratio.num >= 0 THEN glue.stretch ELSE glue.shrink

\* the expectations of tests::it_adds_hskips and tests::it_adds_vskips
SkipTests ==
    LET g0 == Glue(2 * Pt, Dimen(0), Dimen(0))
        gs == Glue(2 * Pt, Dimen(3 * Pt), Dimen(0))
        gk == Glue(4 * Pt, Dimen(0), Dimen(2 * Pt))
        gf == Glue(2 * Pt, FilDimen(1, 3 * Pt), Dimen(0))
        gi == Glue(6 * Pt, Dimen(0), FilDimen(1, 2 * Pt))
    IN  {<<g0, NoRatio, 2 * 65536>>,
         <<g0, SomeRatio("Finite", 2, 1), 2 * 65536>>,
         <<gs, NoRatio, 2 * 65536>>,
         <<gs, SomeRatio("Finite", 3, 2), 2 * 65536 + (3 * 3 * 65536) \div 2>>,
         <<gs, SomeRatio("Fil", 2, 1), 2 * 65536>>,
         <<gs, SomeRatio("Finite", -3, 2), 2 * 65536>>,
         <<gk, NoRatio, 4 * 65536>>,
         <<gk, SomeRatio("Finite", -1, 2), 4 * 65536 - (2 * 65536) \div 2>>,
         <<gk, SomeRatio("Fil", -3, 2), 4 * 65536>>,
         <<gk, SomeRatio("Finite", 3, 2), 4 * 65536>>,
         <<gf, NoRatio, 2 * 65536>>,
         <<gf, SomeRatio("Fil", 3, 2), 2 * 65536 + (3 * 3 * 65536) \div 2>>,
         <<gf, SomeRatio("Finite", 3, 2), 2 * 65536>>,
         <<gf, SomeRatio("Fill", 3, 2), 2 * 65536>>,
         <<gf, SomeRatio("Fil", -1, 2), 2 * 65536>>,
         <<gi, NoRatio, 6 * 65536>>,
         <<gi, SomeRatio("Fil", -3, 2), 6 * 65536 - 3 * 65536>>,
         <<gi, SomeRatio("Finite", -1, 2), 6 * 65536>>,
         <<gi, SomeRatio("Fill", -3, 2), 6 * 65536>>,
         <<gi, SomeRatio("Fil", 3, 2), 6 * 65536>>}

\* the model sets the skips of the tests as the tests expect
SkipTestsPass ==
    SkipSet => \A t \in SkipTests :
        (t[1] = SkipGlue /\ t[2] = last_op.ratio) => Moved = t[3]

(***************************************************************************)
(* C8: a skip set with ratio (K, v) moves by space + v x stretch when      *)
(* v >= 0 and by space + v x shrink when v < 0, the component counting     *)
(* when its order is K and the product cut to whole sp towards zero; a     *)
(* negative ratio leaves a glue without shrink at its space, a positive    *)
(* ratio a glue without stretch; {2pt, 3pt, 0} with (Finite, 1.5) moves by *)
(* 425984 sp.                                                              *)
(***************************************************************************)
C8_SkipSetWithRatio ==
    (SkipSet /\ last_op.ratio.some) =>
        LET r == last_op.ratio
            spring == IF r.num >= 0 THEN SkipGlue.stretch ELSE SkipGlue.shrink
        IN  /\ SkipCommand
            /\ spring.order = KindOrder(r.kind) =>
                 IsTruncatedProduct(Moved - SkipGlue.space, spring.amt, r.num, r.den)
            /\ (r.num < 0 /\ SkipGlue.shrink.amt = 0) => Moved = SkipGlue.space
            /\ (r.num > 0 /\ SkipGlue.stretch.amt = 0) => Moved = SkipGlue.space
            /\ (SkipGlue = Glue(2 * Pt, Dimen(3 * Pt), Dimen(0))
                  /\ r = SomeRatio("Finite", 3, 2)) => Moved = 425984

\* a negative ratio on a glue with stretch and a shrink that is cut to
\* whole sp: 3 sp shrunk by a half moves by 1 sp less
C8_Witness ==
    /\ SkipSet
    /\ last_op.ratio = SomeRatio("Finite", -1, 2)
    /\ SkipGlue = Glue(4 * Pt, Dimen(3 * Pt), Dimen(3))
    /\ Moved = 4 * Pt - 1

(***************************************************************************)
(* C9: a skip moves by exactly glue.space when the ratio is None, and when *)
(* the ratio is (K, v) and the component selected by the sign of v is not  *)
(* of order K.                                                             *)
(***************************************************************************)
C9_SkipAtNaturalSpace ==
    SkipSet =>
        /\ SkipCommand
        /\ ~last_op.ratio.some => Moved = SkipGlue.space
        /\ (last_op.ratio.some
              /\ Selected(SkipGlue, last_op.ratio).order # KindOrder(last_op.ratio.kind))
             => Moved = SkipGlue.space

\* a fil stretch under a Finite ratio
C9_Witness ==
    /\ SkipSet
    /\ last_op.ratio = SomeRatio("Finite", 3, 2)
    /\ SkipGlue = Glue(2 * Pt, FilDimen(1, 3 * Pt), Dimen(2 * Pt))
    /\ Moved = 131072

(***************************************************************************)
(* C11: every skip is set with the ratio of the box that directly contains *)
(* it.  The operands of the Right4 and Down4 commands a completed add_box  *)
(* or add_page appends are, in order, those of the box read from its       *)
(* structure: a skip moves by its glue under the ratio of its own box, a   *)
(* nested box contributes its own moves, under its own ratio, and then its *)
(* advance, and the elements after it are set with the outer ratio again.  *)
(***************************************************************************)
RECURSIVE MovesOfBox(_)
RECURSIVE MovesOfList(_, _, _, _)
\* the operands of the moves of the elements of list from element i on, in a
\* box of the given variant set with ratio
MovesOfList(list, i, variant, ratio) ==
    IF i > Len(list)
    THEN <<>>
    ELSE LET elem == list[i]
             moves == CASE elem.type \in {"HSkip", "VSkip"} ->
                             <<IF ratio.some
                               THEN apply_to_glue(ratio, elem.glue)
                               ELSE elem.glue.space>>
                        [] elem.type = "Box" ->
                             MovesOfBox(elem.box) \o
                             <<IF variant = "HorizontalBox"
                               THEN elem.box.width
                               ELSE elem.box.height + elem.box.depth>>
                        [] OTHER -> <<>>
         IN  moves \o MovesOfList(list, i + 1, variant, ratio)

MovesOfBox(tex_box) ==
    MovesOfList(tex_box.list, 1, tex_box.variant, tex_box.glue_set_ratio)

\* the operands of the Right4 and Down4 commands of seq, in order
MovesIn(seq) ==
    LET moves == SelectSeq(seq, LAMBDA c : c.op \in {"Right4", "Down4"})
    IN  [i \in 1..Len(moves) |-> moves[i].n]

C11_SkipSetWithRatioOfOwnBox ==
    /\ Completed("add_box") => MovesIn(Appended) = MovesOfBox(last_op.arg)
    /\ Completed("add_page") => MovesIn(Appended) = MovesOfBox(last_op.arg[1])

\* the page PageMixed: the skip of its first inner box is stretched by the
\* inner ratio (Finite, 3/2), the skip of the page that follows that box by
\* the page's ratio (Fil, 1/2), and the skip of its second inner box is
\* shrunk by that box's ratio (Finite, -1/2)
C11_Witness ==
    /\ Completed("add_page")
    /\ last_op.arg[1] = PageMixed
    /\ MovesIn(Appended) =
         <<2 * Pt + (9 * Pt) \div 2, 5 * Pt, 8 * Pt,
           2 * Pt + (3 * Pt) \div 2,
           6 * Pt, 2 * Pt - Pt \div 2, 10 * Pt>>

(***************************************************************************)
(* The translation of math lists into horizontal lists                     *)
(* (src/src/parser/math_list.rs).  A call returns a record: panic is the   *)
(* message of the panic that ended it, "" when it returned.                *)
(***************************************************************************)
AtomKinds == {"Ord", "Op", "Bin", "Rel", "Open", "Close", "Punct", "Inner"}
MathStyles == {"DisplayStyle", "TextStyle", "ScriptStyle", "ScriptScriptStyle"}

\* MathStyle::is_script
is_script(style) == style \in {"ScriptStyle", "ScriptScriptStyle"}

\* the entries of the table, in the order of the source: (left, right, spacing)
SpacingEntries ==
    {<<"Ord", "Ord", "None">>,
     <<"Ord", "Op", "ThinSkip">>,
     <<"Ord", "Bin", "MediumSkipNonScript">>,
     <<"Ord", "Rel", "ThickSkipNonScript">>,
     <<"Ord", "Open", "None">>,
     <<"Ord", "Close", "None">>,
     <<"Ord", "Punct", "None">>,
     <<"Ord", "Inner", "ThinSkipNonScript">>,
     <<"Op", "Ord", "ThinSkip">>,
     <<"Op", "Op", "ThinSkip">>,
     <<"Op", "Rel", "ThickSkipNonScript">>,
     <<"Op", "Open", "None">>,
     <<"Op", "Close", "None">>,
     <<"Op", "Punct", "None">>,
     <<"Op", "Inner", "ThinSkipNonScript">>,
     <<"Bin", "Ord", "MediumSkipNonScript">>,
     <<"Bin", "Op", "MediumSkipNonScript">>,
     <<"Bin", "Open", "MediumSkipNonScript">>,
     <<"Bin", "Inner", "MediumSkipNonScript">>,
     <<"Rel", "Ord", "ThickSkipNonScript">>,
     <<"Rel", "Op", "ThickSkipNonScript">>,
     <<"Rel", "Rel", "None">>,
     <<"Rel", "Open", "ThickSkipNonScript">>,
     <<"Rel", "Close", "None">>,
     <<"Rel", "Punct", "None">>,
     <<"Rel", "Inner", "ThickSkipNonScript">>,
     <<"Open", "Ord", "None">>,
     <<"Open", "Op", "None">>,
     <<"Open", "Rel", "None">>,
     <<"Open", "Open", "None">>,
     <<"Open", "Close", "None">>,
     <<"Open", "Punct", "None">>,
     <<"Open", "Inner", "None">>,
     <<"Close", "Ord", "None">>,
     <<"Close", "Op", "ThinSkip">>,
     <<"Close", "Bin", "MediumSkipNonScript">>,
     <<"Close", "Rel", "ThickSkipNonScript">>,
     <<"Close", "Open", "None">>,
     <<"Close", "Close", "None">>,
     <<"Close", "Punct", "None">>,
     <<"Close", "Inner", "ThinSkipNonScript">>,
     <<"Punct", "Ord", "ThinSkipNonScript">>,
     <<"Punct", "Op", "ThinSkipNonScript">>,
     <<"Punct", "Rel", "ThinSkipNonScript">>,
     <<"Punct", "Open", "ThinSkipNonScript">>,
     <<"Punct", "Close", "ThinSkipNonScript">>,
     <<"Punct", "Punct", "ThinSkipNonScript">>,
     <<"Punct", "Inner", "ThinSkipNonScript">>,
     <<"Inner", "Ord", "ThinSkipNonScript">>,
     <<"Inner", "Op", "ThinSkip">>,
     <<"Inner", "Bin", "MediumSkipNonScript">>,
     <<"Inner", "Rel", "ThickSkipNonScript">>,
     <<"Inner", "Open", "ThinSkipNonScript">>,
     <<"Inner", "Close", "None">>,
     <<"Inner", "Punct", "ThinSkipNonScript">>,
     <<"Inner", "Inner", "ThinSkipNonScript">>}

\* the table with its rows and columns exchanged
INTER_ATOM_SPACING_transposed ==
    [pair \in {<<e[2], e[1]>> : e \in SpacingEntries} |->
        (CHOOSE e \in SpacingEntries : e[2] = pair[1] /\ e[1] = pair[2])[3]]

\* the HashMap INTER_ATOM_SPACING: the pairs that have no entry are not in
\* its domain
INTER_ATOM_SPACING ==
    [pair \in {<<e[1], e[2]>> : e \in SpacingEntries} |->
        (CHOOSE e \in SpacingEntries : e[1] = pair[1] /\ e[2] = pair[2])[3]]

\* the three glues of get_skip_for_atom_pair
thinskip == Glue(3 * Pt, Dimen(0), Dimen(0))
mediumskip == Glue(4 * Pt, Dimen(2 * Pt), Dimen(4 * Pt))
thickskip == Glue(5 * Pt, Dimen(5 * Pt), Dimen(0))

NoGlue == [some |-> FALSE, panic |-> ""]
SomeGlue(glue) == [some |-> TRUE, glue |-> glue, panic |-> ""]

\* get_skip_for_atom_pair that does not look at the style
get_skip_for_atom_pair_in_every_style(left_type, right_type, style) ==
    IF <<left_type, right_type>> \in DOMAIN INTER_ATOM_SPACING
    THEN LET space == INTER_ATOM_SPACING[<<left_type, right_type>>]
         IN  CASE space = "None" -> NoGlue
               [] space = "ThinSkip" -> SomeGlue(thinskip)
               [] space = "ThinSkipNonScript" -> SomeGlue(thinskip)
               [] space = "MediumSkipNonScript" -> SomeGlue(mediumskip)
               [] space = "ThickSkipNonScript" -> SomeGlue(thickskip)
    ELSE [some |-> FALSE, panic |-> "Invalid atom type pair"]

\* Parser::get_skip_for_atom_pair
get_skip_for_atom_pair(left_type, right_type, style) ==
    IF <<left_type, right_type>> \in DOMAIN INTER_ATOM_SPACING
    THEN LET space == INTER_ATOM_SPACING[<<left_type, right_type>>]
         IN  CASE space = "None" -> NoGlue
               [] space = "ThinSkip" -> SomeGlue(thinskip)
               [] space = "ThinSkipNonScript" ->
                    IF is_script(style) THEN NoGlue ELSE SomeGlue(thinskip)
               [] space = "MediumSkipNonScript" ->
                    IF is_script(style) THEN NoGlue ELSE SomeGlue(mediumskip)
               [] space = "ThickSkipNonScript" ->
                    IF is_script(style) THEN NoGlue ELSE SomeGlue(thickskip)
    ELSE [some |-> FALSE, panic |-> "Invalid atom type pair"]

\* math fields, atoms and the elements of a math list
NoField == [field |-> "None"]
Symbol(position_number) == [field |-> "Symbol", position_number |-> position_number]
TeXBoxField(tex_box) == [field |-> "TeXBox", box |-> tex_box]
MathListField(list) == [field |-> "MathList", list |-> list]

MathAtom(kind, nucleus, superscript, subscript) ==
    [type |-> "Atom", kind |-> kind, nucleus |-> nucleus,
     superscript |-> superscript, subscript |-> subscript]
StyleChange(style) == [type |-> "StyleChange", style |-> style]
\* an element of a math list that is neither an atom nor a style change
OtherElem == [type |-> "Other"]

has_superscript(atom) == atom.superscript # NoField
has_subscript(atom) == atom.subscript # NoField

\* the font of the parser's state
get_current_font == "cmr10"

\* a horizontal box in its natural layout; its dimensions, those of its
\* contents, are left out
NaturalHBox(list) ==
    [variant |-> "HorizontalBox", list |-> list, glue_set_ratio |-> NoRatio]

RECURSIVE convert_math_list_to_horizontal_list(_, _)
RECURSIVE first_pass(_, _, _, _)
RECURSIVE second_pass(_, _, _, _, _)

\* the nucleus after a first pass that leaves a symbol as it is
first_pass_nucleus_keeps_symbol(nucleus, current_style) ==
    CASE nucleus.field = "MathList" ->
           LET r == convert_math_list_to_horizontal_list(nucleus.list, current_style)
           IN  IF r.panic # ""
               THEN [panic |-> r.panic, nucleus |-> nucleus]
               ELSE [panic |-> "", nucleus |-> TeXBoxField(NaturalHBox(r.list))]
      [] OTHER -> [panic |-> "", nucleus |-> nucleus]

\* the nucleus after a first pass that translates a nested list in TextStyle
first_pass_nucleus_nested_in_text_style(nucleus, current_style) ==
    CASE nucleus.field = "Symbol" ->
           [panic |-> "",
            nucleus |-> TeXBoxField(NaturalHBox(
                            <<Char(nucleus.position_number, get_current_font)>>))]
      [] nucleus.field = "MathList" ->
           LET r == convert_math_list_to_horizontal_list(nucleus.list, "TextStyle")
           IN  IF r.panic # ""
               THEN [panic |-> r.panic, nucleus |-> nucleus]
               ELSE [panic |-> "", nucleus |-> TeXBoxField(NaturalHBox(r.list))]
      [] OTHER -> [panic |-> "", nucleus |-> nucleus]

\* the nucleus of an atom after the first pass
first_pass_nucleus(nucleus, current_style) ==
    CASE nucleus.field = "Symbol" ->
           [panic |-> "",
            nucleus |-> TeXBoxField(NaturalHBox(
                            <<Char(nucleus.position_number, get_current_font)>>))]
      [] nucleus.field = "TeXBox" -> [panic |-> "", nucleus |-> nucleus]
      [] nucleus.field = "MathList" ->
           LET r == convert_math_list_to_horizontal_list(nucleus.list, current_style)
           IN  IF r.panic # ""
               THEN [panic |-> r.panic, nucleus |-> nucleus]
               ELSE [panic |-> "", nucleus |-> TeXBoxField(NaturalHBox(r.list))]
      [] nucleus.field = "None" -> [panic |-> "", nucleus |-> nucleus]

RECURSIVE first_pass_drops_scripts(_, _, _, _)
\* the first loop without the check of line 409: the scripts of an atom are
\* dropped
first_pass_drops_scripts(list, i, current_style, elems) ==
    IF i > Len(list)
    THEN [panic |-> "", elems |-> elems]
    ELSE LET elem == list[i]
         IN  CASE elem.type = "Atom" ->
                    LET n == first_pass_nucleus(elem.nucleus, current_style)
                    IN  IF n.panic # ""
                        THEN [panic |-> n.panic, elems |-> elems]
                        ELSE first_pass_drops_scripts(list, i + 1, current_style,
                               Append(elems, MathAtom(elem.kind, n.nucleus, NoField, NoField)))
               [] elem.type = "StyleChange" ->
                    first_pass_drops_scripts(list, i + 1, elem.style, Append(elems, elem))
               [] OTHER ->
                    [panic |-> "unimplemented math list elem", elems |-> elems]

\* the first loop of convert_math_list_to_horizontal_list, from element i
\* on: elems is elems_after_first_pass
first_pass(list, i, current_style, elems) ==
    IF i > Len(list)
    THEN [panic |-> "", elems |-> elems]
    ELSE LET elem == list[i]
         IN  CASE elem.type = "Atom" ->
                    LET n == first_pass_nucleus(elem.nucleus, current_style)
                    IN  IF n.panic # ""
                        THEN [panic |-> n.panic, elems |-> elems]
                        ELSE IF has_subscript(elem) \/ has_superscript(elem)
                        THEN [panic |-> "Unimplemented superscript/subscript",
                              elems |-> elems]
                        ELSE first_pass(list, i + 1, current_style,
                                        Append(elems, [elem EXCEPT !.nucleus = n.nucleus]))
               [] elem.type = "StyleChange" ->
                    first_pass(list, i + 1, elem.style, Append(elems, elem))
               [] OTHER ->
                    [panic |-> "unimplemented math list elem", elems |-> elems]

RECURSIVE second_pass_skip_after_box(_, _, _, _, _)
\* the second loop with the skip of a pair put after the box of its second
\* atom
second_pass_skip_after_box(elems, i, maybe_last_atom_kind, current_style, list) ==
    IF i > Len(elems)
    THEN [panic |-> "", list |-> list]
    ELSE LET elem == elems[i]
         IN  CASE elem.type = "Atom" ->
                    LET skip == IF maybe_last_atom_kind # <<>>
                                THEN get_skip_for_atom_pair(maybe_last_atom_kind[1],
                                                            elem.kind, current_style)
                                ELSE NoGlue
                        l1 == IF elem.nucleus.field = "TeXBox"
                              THEN Append(list, BoxElem(elem.nucleus.box))
                              ELSE list
                        l2 == IF skip.some THEN Append(l1, HSkip(skip.glue)) ELSE l1
                    IN  IF skip.panic # ""
                        THEN [panic |-> skip.panic, list |-> l2]
                        ELSE second_pass_skip_after_box(elems, i + 1, <<elem.kind>>,
                                                        current_style, l2)
               [] elem.type = "StyleChange" ->
                    second_pass_skip_after_box(elems, i + 1, maybe_last_atom_kind,
                                               elem.style, list)
               [] OTHER ->
                    [panic |-> "unimplemented math list elem",
                     list |-> list]

RECURSIVE second_pass_style_change_forgets_kind(_, _, _, _, _)
\* the second loop with a style change that forgets the kind of the last atom
second_pass_style_change_forgets_kind(elems, i, maybe_last_atom_kind, current_style, list) ==
    IF i > Len(elems)
    THEN [panic |-> "", list |-> list]
    ELSE LET elem == elems[i]
         IN  CASE elem.type = "Atom" ->
                    LET skip == IF maybe_last_atom_kind # <<>>
                                THEN get_skip_for_atom_pair(maybe_last_atom_kind[1],
                                                            elem.kind, current_style)
                                ELSE NoGlue
                        l1 == IF skip.some THEN Append(list, HSkip(skip.glue)) ELSE list
                        l2 == IF elem.nucleus.field = "TeXBox"
                              THEN Append(l1, BoxElem(elem.nucleus.box))
                              ELSE l1
                    IN  IF skip.panic # ""
                        THEN [panic |-> skip.panic, list |-> l1]
                        ELSE second_pass_style_change_forgets_kind(
                                 elems, i + 1, <<elem.kind>>, current_style, l2)
               [] elem.type = "StyleChange" ->
                    second_pass_style_change_forgets_kind(elems, i + 1, <<>>,
                                                          elem.style, list)
               [] OTHER ->
                    [panic |-> "unimplemented math list elem", list |-> list]

\* the second loop, from element i on: maybe_last_atom_kind is a sequence
\* of no kind or of one
second_pass(elems, i, maybe_last_atom_kind, current_style, resulting_horizontal_list) ==
    IF i > Len(elems)
    THEN [panic |-> "", list |-> resulting_horizontal_list]
    ELSE LET elem == elems[i]
         IN  CASE elem.type = "Atom" ->
                    LET skip == IF maybe_last_atom_kind # <<>>
                                THEN get_skip_for_atom_pair(maybe_last_atom_kind[1],
                                                            elem.kind, current_style)
                                ELSE NoGlue
                        l1 == IF skip.some
                              THEN Append(resulting_horizontal_list, HSkip(skip.glue))
                              ELSE resulting_horizontal_list
                    IN  IF skip.panic # ""
                        THEN [panic |-> skip.panic, list |-> l1]
                        ELSE IF has_subscript(elem) \/ has_superscript(elem)
                        THEN [panic |-> "Atoms should be sub/superscript free in second pass!",
                              list |-> l1]
                        ELSE CASE elem.nucleus.field = "TeXBox" ->
                                    second_pass(elems, i + 1, <<elem.kind>>, current_style,
                                                Append(l1, BoxElem(elem.nucleus.box)))
                               [] elem.nucleus.field = "None" ->
                                    second_pass(elems, i + 1, <<elem.kind>>, current_style, l1)
                               [] OTHER ->
                                    [panic |-> "Atom nucleuses should only be boxes in second pass!",
                                     list |-> l1]
               [] elem.type = "StyleChange" ->
                    second_pass(elems, i + 1, maybe_last_atom_kind, elem.style,
                                resulting_horizontal_list)
               [] OTHER ->
                    [panic |-> "unimplemented math list elem",
                     list |-> resulting_horizontal_list]

\* the translator with a second loop that starts as if after an Ord atom
convert_math_list_starting_after_ord(list, start_style) ==
    LET p1 == first_pass(list, 1, start_style, <<>>)
        p2 == second_pass(p1.elems, 1, <<"Ord">>, start_style, <<>>)
    IN  IF p1.panic # ""
        THEN [panic |-> p1.panic, list |-> <<>>, pass |-> 1,
              elems_after_first_pass |-> p1.elems]
        ELSE [panic |-> p2.panic, list |-> IF p2.panic = "" THEN p2.list ELSE <<>>,
              pass |-> 2, elems_after_first_pass |-> p1.elems]

\* Parser::convert_math_list_to_horizontal_list: the list it returns, or the
\* panic that ended it; pass is the loop it reached, and
\* elems_after_first_pass what the first loop handed to the second
convert_math_list_to_horizontal_list(list, start_style) ==
    LET p1 == first_pass(list, 1, start_style, <<>>)
        p2 == second_pass(p1.elems, 1, <<>>, start_style, <<>>)
    IN  IF p1.panic # ""
        THEN [panic |-> p1.panic, list |-> <<>>, pass |-> 1,
              elems_after_first_pass |-> p1.elems]
        ELSE [panic |-> p2.panic, list |-> IF p2.panic = "" THEN p2.list ELSE <<>>,
              pass |-> 2, elems_after_first_pass |-> p1.elems]

(***************************************************************************)
(* The translator specification: one call of get_skip_for_atom_pair or of  *)
(* convert_math_list_to_horizontal_list, on an input of the sets below.    *)
(***************************************************************************)
\* the longest list of plain elements, and of the other elements
MaxMathLen == 3
MaxRichLen == 2

\* the sequences of n elements of S
SeqsOf(S, n) == [1..n -> S]

\* the letter that stands for a kind in the tests: o p b r n c t, and i
PositionOf(kind) ==
    CASE kind = "Ord" -> 111 [] kind = "Op" -> 112 [] kind = "Bin" -> 98
      [] kind = "Rel" -> 114 [] kind = "Open" -> 110 [] kind = "Close" -> 99
      [] kind = "Punct" -> 116 [] kind = "Inner" -> 105

\* an atom as parse_math_list builds it from a math code: a symbol, no scripts
PlainAtom(kind) == MathAtom(kind, Symbol(PositionOf(kind)), NoField, NoField)
PlainElems ==
    {PlainAtom(kind) : kind \in AtomKinds} \cup {StyleChange(style) : style \in MathStyles}

\* atoms with the other nuclei, atoms with scripts, and an element that is
\* neither atom nor style change
GroupOR == MathListField(<<PlainAtom("Ord"), PlainAtom("Rel")>>)
GroupScript ==
    MathListField(<<StyleChange("ScriptStyle"), PlainAtom("Ord"), PlainAtom("Rel")>>)
GroupSup ==
    MathListField(<<PlainAtom("Ord"),
                    MathAtom("Ord", Symbol(97), Symbol(50), NoField)>>)
GroupBinBin == MathListField(<<PlainAtom("Bin"), PlainAtom("Bin")>>)
RichElems ==
    {PlainAtom("Ord"), PlainAtom("Rel"), StyleChange("ScriptStyle"),
     MathAtom("Rel", NoField, NoField, NoField),
     MathAtom("Bin", TeXBoxField(BoxG), NoField, NoField),
     MathAtom("Ord", Symbol(97), Symbol(50), NoField),
     MathAtom("Ord", Symbol(97), NoField, GroupOR),
     MathAtom("Ord", NoField, Symbol(50), Symbol(49)),
     MathAtom("Inner", GroupOR, NoField, NoField),
     MathAtom("Ord", GroupScript, NoField, NoField),
     MathAtom("Ord", GroupSup, NoField, NoField),
     MathAtom("Op", GroupBinBin, NoField, NoField),
     MathAtom("Ord", MathListField(<<MathAtom("Rel", GroupOR, NoField, NoField)>>),
              NoField, NoField),
     MathAtom("Ord", MathListField(<<MathAtom("Ord", GroupSup, NoField, NoField)>>),
              NoField, NoField),
     OtherElem}

\* the list of tests::it_adds_space_between_atoms_of_different_types_in_
\* math_lists with the horizontal list the test expects, in three parts,
\* each part starting with the last atom of the part before
TestSpaceLists ==
    LET A(kind, chr) == MathAtom(kind, Symbol(chr), NoField, NoField)
    IN  <<<<A("Ord", 111), A("Ord", 111), A("Op", 112), A("Ord", 111),
            A("Bin", 98), A("Ord", 111), A("Rel", 114), A("Ord", 111),
            A("Open", 110), A("Ord", 111), A("Close", 99), A("Ord", 111),
            A("Punct", 116), A("Ord", 111)>>,
          <<A("Ord", 111), A("Op", 112), A("Op", 112), A("Rel", 114),
            A("Op", 112), A("Open", 110), A("Op", 112), A("Close", 99),
            A("Op", 112), A("Punct", 116), A("Op", 112), A("Ord", 111),
            A("Bin", 98), A("Open", 110), A("Ord", 111), A("Bin", 98),
            A("Ord", 111)>>,
          <<A("Ord", 111), A("Rel", 114), A("Rel", 114), A("Open", 110),
            A("Rel", 114), A("Close", 99), A("Rel", 114), A("Punct", 116),
            A("Rel", 114), A("Open", 110), A("Open", 110), A("Close", 99),
            A("Open", 110), A("Punct", 116), A("Open", 110), A("Close", 99),
            A("Close", 99), A("Punct", 116), A("Close", 99), A("Punct", 116),
            A("Punct", 116)>>>>
TestSpaceExpected ==
    LET B(chr) == BoxElem(NaturalHBox(<<Char(chr, get_current_font)>>))
    IN  <<<<B(111), B(111), HSkip(thinskip), B(112), HSkip(thinskip), B(111),
            HSkip(mediumskip), B(98), HSkip(mediumskip), B(111),
            HSkip(thickskip), B(114), HSkip(thickskip), B(111), B(110),
            B(111), B(99), B(111), B(116), HSkip(thinskip), B(111)>>,
          <<B(111), HSkip(thinskip), B(112), HSkip(thinskip), B(112),
            HSkip(thickskip), B(114), HSkip(thickskip), B(112), B(110),
            B(112), B(99), HSkip(thinskip), B(112), B(116), HSkip(thinskip),
            B(112), HSkip(thinskip), B(111), HSkip(mediumskip), B(98),
            HSkip(mediumskip), B(110), B(111), HSkip(mediumskip), B(98),
            HSkip(mediumskip), B(111)>>,
          <<B(111), HSkip(thickskip), B(114), B(114), HSkip(thickskip),
            B(110), B(114), B(99), HSkip(thickskip), B(114), B(116),
            HSkip(thinskip), B(114), HSkip(thickskip), B(110), B(110), B(99),
            B(110), B(116), HSkip(thinskip), B(110), B(99), B(99), B(116),
            HSkip(thinskip), B(99), B(116), HSkip(thinskip), B(116)>>>>
\* the same for tests::it_does_not_add_some_inter_atom_space_in_script_
\* styles (there p is a Punct atom), in two parts
TestScriptLists ==
    LET A(kind, chr) == MathAtom(kind, Symbol(chr), NoField, NoField)
    IN  <<<<StyleChange("DisplayStyle"), A("Ord", 111), A("Rel", 114),
            A("Punct", 112), A("Ord", 111), A("Bin", 98),
            StyleChange("TextStyle"), A("Ord", 111), A("Rel", 114),
            A("Punct", 112), A("Ord", 111), A("Bin", 98)>>,
          <<A("Bin", 98), StyleChange("ScriptStyle"), A("Ord", 111),
            A("Rel", 114), A("Punct", 112), A("Ord", 111), A("Bin", 98),
            StyleChange("ScriptScriptStyle"), A("Ord", 111), A("Rel", 114),
            A("Punct", 112), A("Ord", 111), A("Bin", 98)>>>>
TestScriptExpected ==
    LET B(chr) == BoxElem(NaturalHBox(<<Char(chr, get_current_font)>>))
    IN  <<<<B(111), HSkip(thickskip), B(114), B(112), HSkip(thinskip),
            B(111), HSkip(mediumskip), B(98), HSkip(mediumskip), B(111),
            HSkip(thickskip), B(114), B(112), HSkip(thinskip), B(111),
            HSkip(mediumskip), B(98)>>,
          <<B(98), B(111), B(114), B(112), B(111), B(98), B(111), B(114),
            B(112), B(111), B(98)>>>>
TestLists == TestSpaceLists \o TestScriptLists
TestExpected == TestSpaceExpected \o TestScriptExpected

\* o r p o b
ListORPOB ==
    <<PlainAtom("Ord"), PlainAtom("Rel"), PlainAtom("Punct"), PlainAtom("Ord"),
      PlainAtom("Bin")>>

\* the lists of the tests and o r p o b
MathListSamples == {TestLists[i] : i \in 1..Len(TestLists)} \cup {ListORPOB}

ConvertCall(list, start_style) ==
    [call |-> "convert_math_list_to_horizontal_list", list |-> list,
     start_style |-> start_style]
GetSkipCall(left_type, right_type, style) ==
    [call |-> "get_skip_for_atom_pair", left_type |-> left_type,
     right_type |-> right_type, style |-> style]

InitMath ==
    /\ commands = new.commands
    /\ stack_depth = new.stack_depth
    /\ last_page_start = new.last_page_start
    /\ curr_font_num = new.curr_font_num
    /\ font_nums = new.font_nums
    /\ next_font_num = new.next_font_num
    /\ panicked = new.panicked
    /\ char_log = new.char_log
    /\ last_op = NoOp
    /\ n_ops = 0
    /\ \/ \E n \in 0..MaxMathLen, start_style \in MathStyles :
            \E list \in SeqsOf(PlainElems, n) : math_in = ConvertCall(list, start_style)
       \/ \E n \in 0..MaxRichLen, start_style \in MathStyles :
            \E list \in SeqsOf(RichElems, n) : math_in = ConvertCall(list, start_style)
       \/ \E list \in MathListSamples, start_style \in MathStyles :
            math_in = ConvertCall(list, start_style)
       \/ \E left_type \in AtomKinds, right_type \in AtomKinds, style \in MathStyles :
            math_in = GetSkipCall(left_type, right_type, style)
    /\ math_out = NoCall
    /\ pack_in = NoCall
    /\ pack_out = NoCall
    /\ run = NoCall

writer_vars == <<commands, stack_depth, last_page_start, curr_font_num, font_nums,
                 next_font_num, panicked, char_log, last_op, n_ops>>

GetSkipForAtomPair ==
    /\ math_out = NoCall
    /\ math_in.call = "get_skip_for_atom_pair"
    /\ math_out' = get_skip_for_atom_pair(math_in.left_type, math_in.right_type,
                                          math_in.style)
    /\ UNCHANGED <<math_in, writer_vars, pack_in, pack_out, run>>

ConvertMathList ==
    /\ math_out = NoCall
    /\ math_in.call = "convert_math_list_to_horizontal_list"
    /\ math_out' = convert_math_list_to_horizontal_list(math_in.list, math_in.start_style)
    /\ UNCHANGED <<math_in, writer_vars, pack_in, pack_out, run>>

NextMath ==
    \/ GetSkipForAtomPair
    \/ ConvertMathList

SpecMath == InitMath /\ [][NextMath]_vars

\* the call under check has returned or panicked
GotSkip == math_in.call = "get_skip_for_atom_pair" /\ math_out # NoCall
Converted == math_in.call = "convert_math_list_to_horizontal_list" /\ math_out # NoCall
Returned == math_out.panic = ""

\* the model translates the lists of the two tests as the tests expect
MathTestsPass ==
    (Converted /\ math_in.start_style = "TextStyle") =>
        \A i \in 1..Len(TestLists) :
            math_in.list = TestLists[i] => Returned /\ math_out.list = TestExpected[i]

(***************************************************************************)
(* The spacing table as the specification gives it: rows are the left      *)
(* atom, columns the right atom, in the order Ord Op Bin Rel Open Close    *)
(* Punct Inner; "-" is a pair without entry.                               *)
(***************************************************************************)
KindSeq == <<"Ord", "Op", "Bin", "Rel", "Open", "Close", "Punct", "Inner">>
ColumnOf(kind) == CHOOSE i \in 1..Len(KindSeq) : KindSeq[i] = kind
SpecTable ==
    [Ord   |-> <<"0",  "1",  "2", "3", "0",  "0", "0",  "1*">>,
     Op    |-> <<"1",  "1",  "-", "3", "0",  "0", "0",  "1*">>,
     Bin   |-> <<"2",  "2",  "-", "-", "2",  "-", "-",  "2">>,
     Rel   |-> <<"3",  "3",  "-", "0", "3",  "0", "0",  "3">>,
     Open  |-> <<"0",  "0",  "-", "0", "0",  "0", "0",  "0">>,
     Close |-> <<"0",  "1",  "2", "3", "0",  "0", "0",  "1*">>,
     Punct |-> <<"1*", "1*", "-", "1*", "1*", "1*", "1*", "1*">>,
     Inner |-> <<"1*", "1",  "2", "3", "1*", "0", "1*", "1*">>]
SpecTag(left, right) == SpecTable[left][ColumnOf(right)]

\* what the specification prescribes for a tag in a style: "" for no skip,
\* else the name of the skip
Prescribed(tag, style) ==
    CASE tag = "0" -> ""
      [] tag = "1" -> "thin"
      [] tag = "1*" -> IF style \in {"ScriptStyle", "ScriptScriptStyle"} THEN "" ELSE "thin"
      [] tag = "2" -> IF style \in {"ScriptStyle", "ScriptScriptStyle"} THEN "" ELSE "medium"
      [] tag = "3" -> IF style \in {"ScriptStyle", "ScriptScriptStyle"} THEN "" ELSE "thick"
      [] tag = "-" -> ""
\* the glue of a skip of the specification
SpecGlue(name) ==
    CASE name = "thin" -> [space |-> 3 * 65536, stretch |-> Dimen(0), shrink |-> Dimen(0)]
      [] name = "medium" ->
           [space |-> 4 * 65536, stretch |-> Dimen(2 * 65536), shrink |-> Dimen(4 * 65536)]
      [] name = "thick" ->
           [space |-> 5 * 65536, stretch |-> Dimen(5 * 65536), shrink |-> Dimen(0)]

(***************************************************************************)
(* C12: for every pair of kinds with an entry in the table and every       *)
(* style, get_skip_for_atom_pair returns what the table of the             *)
(* specification prescribes: no skip for tag 0, thin in every style for    *)
(* tag 1, thin, medium or thick in the non-script styles for tags 1*, 2,   *)
(* 3, with thin = {3pt, 0, 0}, medium = {4pt, 2pt, 4pt} and                *)
(* thick = {5pt, 5pt, 0}.                                                  *)
(***************************************************************************)
C12_SkipOfSpacingTable ==
    (GotSkip /\ SpecTag(math_in.left_type, math_in.right_type) # "-") =>
        LET name == Prescribed(SpecTag(math_in.left_type, math_in.right_type),
                               math_in.style)
        IN  /\ math_out.panic = ""
            /\ math_out.some <=> name # ""
            /\ math_out.some => math_out.glue = SpecGlue(name)

\* a pair whose entry differs from that of the exchanged pair:
\* Punct-Ord is 1*, Ord-Punct is 0
C12_Witness ==
    /\ GotSkip
    /\ math_in.left_type = "Punct" /\ math_in.right_type = "Ord"
    /\ math_in.style = "DisplayStyle"
    /\ math_out.some
    /\ math_out.glue.space = 196608

(***************************************************************************)
(* C13: in ScriptStyle and ScriptScriptStyle a skip is emitted only for    *)
(* the pairs tagged 1 (Thin); the pairs tagged 1*, 2, 3 emit nothing       *)
(* there and emit their skip in DisplayStyle and TextStyle.  The list      *)
(* o r p o b (Ord, Rel, Punct, Ord, Bin) gives box, thick, box, box, thin, *)
(* box, medium, box in the two non-script styles and five boxes in the two *)
(* script styles.                                                          *)
(***************************************************************************)
\* "box" for a box, the name of its skip for an HSkip of the specification
ShapeOfElem(elem) ==
    CASE elem.type = "Box" -> "box"
      [] elem.type = "HSkip" /\ elem.glue = SpecGlue("thin") -> "thin"
      [] elem.type = "HSkip" /\ elem.glue = SpecGlue("medium") -> "medium"
      [] elem.type = "HSkip" /\ elem.glue = SpecGlue("thick") -> "thick"
      [] OTHER -> "other"
ShapeOf(list) == [i \in 1..Len(list) |-> ShapeOfElem(list[i])]

\* the call translated two plain atoms in one style and returned
TwoAtoms(left, right) ==
    /\ Converted
    /\ math_in.list = <<PlainAtom(left), PlainAtom(right)>>
    /\ Returned

C13_ScriptStylesKeepThinOnly ==
    /\ \A left \in AtomKinds, right \in AtomKinds :
         TwoAtoms(left, right) =>
             LET tag == SpecTag(left, right)
                 script == math_in.start_style \in {"ScriptStyle", "ScriptScriptStyle"}
                 skips == {i \in 1..Len(math_out.list) : math_out.list[i].type = "HSkip"}
             IN  /\ script => (skips # {} <=> tag = "1")
                 /\ ~script => (skips # {} <=> tag \in {"1", "1*", "2", "3"})
    /\ (Converted /\ math_in.list = ListORPOB) =>
         /\ Returned
         /\ ShapeOf(math_out.list) =
              IF math_in.start_style \in {"ScriptStyle", "ScriptScriptStyle"}
              THEN <<"box", "box", "box", "box", "box">>
              ELSE <<"box", "thick", "box", "box", "thin", "box", "medium", "box">>

\* o r p o b in ScriptScriptStyle: five boxes
C13_Witness ==
    /\ Converted
    /\ math_in.list = ListORPOB
    /\ math_in.start_style = "ScriptScriptStyle"
    /\ Len(math_out.list) = 5

(***************************************************************************)
(* C14 as stated: for two adjacent atoms whose pair of kinds has no entry  *)
(* in the table, the translator emits no skip between them and goes on:    *)
(* two such atoms give their two boxes, and a list of plain atoms and      *)
(* style changes is translated whatever pairs it holds.                    *)
(***************************************************************************)
C14_MissingEntryTreatedAsNone ==
    /\ \A left \in AtomKinds, right \in AtomKinds :
         (Converted /\ math_in.list = <<PlainAtom(left), PlainAtom(right)>>
            /\ SpecTag(left, right) = "-")
           => Returned /\ ShapeOf(math_out.list) = <<"box", "box">>
    /\ (Converted /\ \A i \in 1..Len(math_in.list) : math_in.list[i] \in PlainElems)
         => Returned

(***************************************************************************)
(* C15: every HSkip of the list the translator returns is the skip the     *)
(* table and the current style prescribe for the kinds of two successive   *)
(* atoms of the list, it stands where the output of the second atom        *)
(* begins, and there is no other HSkip: the returned list is, atom by      *)
(* atom, the prescribed skip if any and then the box of the atom if it has *)
(* a nucleus.                                                              *)
(***************************************************************************)
RECURSIVE PrescribedShape(_, _, _, _)
\* the shape of the output for list from element i on; prev_kind is "" at
\* the first atom
PrescribedShape(list, i, prev_kind, style) ==
    IF i > Len(list)
    THEN <<>>
    ELSE LET elem == list[i]
         IN  IF elem.type = "StyleChange"
             THEN PrescribedShape(list, i + 1, prev_kind, elem.style)
             ELSE LET name == IF prev_kind = "" THEN ""
                              ELSE Prescribed(SpecTag(prev_kind, elem.kind), style)
                  IN  (IF name = "" THEN <<>> ELSE <<name>>) \o
                      (IF elem.nucleus.field = "None" THEN <<>> ELSE <<"box">>) \o
                      PrescribedShape(list, i + 1, elem.kind, style)

C15_OnlyPrescribedSkips ==
    (Converted /\ Returned) =>
        ShapeOf(math_out.list) = PrescribedShape(math_in.list, 1, "", math_in.start_style)

\* a list with style changes, translated from ScriptStyle on, whose output
\* holds the three skips
C15_Witness ==
    /\ Converted /\ Returned
    /\ math_in.list = TestLists[4]
    /\ math_in.start_style = "ScriptStyle"
    /\ {"thin", "medium", "thick"} \subseteq
           {ShapeOf(math_out.list)[i] : i \in 1..Len(math_out.list)}

(***************************************************************************)
(* C16: when the first pass has gone through the whole list, every atom it *)
(* hands to the second pass has a nucleus that is absent or a box and has  *)
(* no subscript and no superscript, and the call does not end in either of *)
(* the two failures of the second pass that guard this.                    *)
(***************************************************************************)
C16_SecondPassInvariantsHold ==
    Converted =>
        /\ math_out.pass = 2 =>
             \A i \in 1..Len(math_out.elems_after_first_pass) :
                 LET elem == math_out.elems_after_first_pass[i]
                 IN  elem.type = "Atom" =>
                         /\ elem.nucleus.field \in {"None", "TeXBox"}
                         /\ elem.superscript = NoField
                         /\ elem.subscript = NoField
        /\ math_out.panic # "Atom nucleuses should only be boxes in second pass!"
        /\ math_out.panic # "Atoms should be sub/superscript free in second pass!"

\* a list with a nested list and a box as nuclei, through both passes
C16_Witness ==
    /\ Converted /\ Returned
    /\ math_in.list = <<MathAtom("Inner", GroupOR, NoField, NoField),
                        MathAtom("Bin", TeXBoxField(BoxG), NoField, NoField)>>
    /\ math_in.start_style = "TextStyle"
    /\ math_out.pass = 2
    /\ ShapeOf(math_out.list) = <<"box", "medium", "box">>

(***************************************************************************)
(* C17: the translation of a list in which an atom, of the list itself or  *)
(* of a list nested in a nucleus, has a subscript or a superscript, ends   *)
(* in a panic and returns no list.                                         *)
(***************************************************************************)
RECURSIVE HasScript(_, _)
\* an atom of list, from element i on, or of a list nested in a nucleus,
\* has a script
HasScript(list, i) ==
    /\ i <= Len(list)
    /\ \/ /\ list[i].type = "Atom"
          /\ \/ list[i].superscript.field # "None"
             \/ list[i].subscript.field # "None"
             \/ list[i].nucleus.field = "MathList" /\ HasScript(list[i].nucleus.list, 1)
       \/ HasScript(list, i + 1)

C17_ScriptsFailFatally ==
    (Converted /\ HasScript(math_in.list, 1)) =>
        math_out.panic # "" /\ math_out.list = <<>>

\* a superscript two lists deep stops the translation of the outer list
C17_Witness ==
    /\ Converted
    /\ math_in.list =
         <<PlainAtom("Ord"),
           MathAtom("Ord", MathListField(<<MathAtom("Ord", GroupSup, NoField, NoField)>>),
                    NoField, NoField)>>
    /\ math_out.panic = "Unimplemented superscript/subscript"
    /\ math_out.pass = 1

(***************************************************************************)
(* The parser of math lists (src/src/parser/math_list.rs).  A parser is a  *)
(* record: the tokens of its input and the place of the next one, the      *)
(* scopes of its state, innermost last, each a function from the count     *)
(* registers assigned in it to their values, and the message of the panic  *)
(* that stopped it, "" while it runs.  There are no macros and no renamed  *)
(* tokens: the expanded tokens are the tokens.  scope_log is bookkeeping   *)
(* of the model: the pushes and pops of scopes, each with the place of the *)
(* next token when it happened.  A parse function returns the parser after *)
(* the call and, as v, its value.                                          *)
(***************************************************************************)
CharTok(cat, ch) == [cat |-> cat, ch |-> ch]
\* a control sequence that is a style-change primitive
PrimTok(name) == [cat |-> "Primitive", name |-> name]
\* the tokens of the assignment \count reg = val, taken as one
AssignTok(reg, val) == [cat |-> "Assignment", reg |-> reg, val |-> val]
\* a control sequence that is none of the above
UnknownTok == [cat |-> "ControlSequence"]
\* no token: the end of the input
NoToken == [cat |-> "None"]

NewParser(tokens, scopes) ==
    [tokens |-> tokens, pos |-> 1, scopes |-> scopes, panic |-> "", scope_log |-> <<>>]
Panic(p, message) == [p EXCEPT !.panic = message]

peek_expanded_token(p) ==
    IF p.pos <= Len(p.tokens) THEN p.tokens[p.pos] ELSE NoToken
lex_expanded_token(p) ==
    [p |-> IF p.pos <= Len(p.tokens) THEN [p EXCEPT !.pos = @ + 1] ELSE p,
     v |-> peek_expanded_token(p)]

\* State::push_state and State::pop_state
push_state(p) ==
    [p EXCEPT !.scopes = Append(@, <<>>),
              !.scope_log = Append(@, [op |-> "push", pos |-> p.pos])]
pop_state(p) ==
    [p EXCEPT !.scopes = SubSeq(@, 1, Len(@) - 1),
              !.scope_log = Append(@, [op |-> "pop", pos |-> p.pos])]

\* State::get_count: the value of the innermost scope that assigns reg
get_count(scopes, reg) ==
    LET assigned == {i \in 1..Len(scopes) : reg \in DOMAIN scopes[i]}
    IN  IF assigned = {} THEN 0 ELSE scopes[Max(assigned)][reg]
\* State::set_count, not global: the innermost scope assigns reg
set_count(p, reg, val) ==
    [p EXCEPT !.scopes[Len(p.scopes)] = insert(@, reg, val)]

is_assignment_head(p) == peek_expanded_token(p).cat = "Assignment"
parse_assignment(p) ==
    LET tok == peek_expanded_token(p)
    IN  set_count(lex_expanded_token(p).p, tok.reg, tok.val)

RECURSIVE parse_filler_expanded(_)
\* skips the spaces before a math field
parse_filler_expanded(p) ==
    IF peek_expanded_token(p).cat = "Space"
    THEN parse_filler_expanded(lex_expanded_token(p).p)
    ELSE p

\* State::get_math_code with the math codes of the tests: the class of the
\* letters o p b r n c t, and the class of a variable for any other character
get_math_code(ch) ==
    [kind |-> CASE ch = 112 -> "Op" [] ch = 98 -> "Bin" [] ch = 114 -> "Rel"
                [] ch = 110 -> "Open" [] ch = 99 -> "Close" [] ch = 116 -> "Punct"
                [] OTHER -> "Ord",
     position_number |-> ch]
\* MathAtom::from_math_code and MathSymbol::from_math_code
from_math_code(math_code) ==
    MathAtom(math_code.kind, Symbol(math_code.position_number), NoField, NoField)
symbol_from_math_code(math_code) == Symbol(math_code.position_number)
\* MathAtom::empty_ord
empty_ord == MathAtom("Ord", NoField, NoField, NoField)

\* Parser::is_character_head
is_character_head(p) == peek_expanded_token(p).cat \in {"Letter", "Other"}
\* Parser::parse_character_to_math_code
parse_character_to_math_code(p) ==
    LET r == lex_expanded_token(p)
    IN  IF "ch" \in DOMAIN r.v
        THEN [p |-> r.p, v |-> get_math_code(r.v.ch)]
        ELSE [p |-> Panic(r.p, "explicit panic"), v |-> get_math_code(0)]
\* Parser::is_math_character_head: no token is defined by \mathchardef
is_math_character_head(p) == FALSE
\* Parser::is_math_symbol_head
is_math_symbol_head(p) == is_character_head(p) \/ is_math_character_head(p)
\* Parser::parse_math_symbol
parse_math_symbol(p) ==
    IF is_character_head(p)
    THEN parse_character_to_math_code(p)
    ELSE [p |-> Panic(p, "Unimplemented"), v |-> get_math_code(0)]

\* Parser::is_math_superscript_head and Parser::is_math_subscript_head
is_math_superscript_head(p) == peek_expanded_token(p).cat = "Superscript"
is_math_subscript_head(p) == peek_expanded_token(p).cat = "Subscript"

\* Parser::is_style_change_head
is_style_change_head(p) ==
    /\ peek_expanded_token(p).cat = "Primitive"
    /\ peek_expanded_token(p).name \in
         {"displaystyle", "textstyle", "scriptstyle", "scriptscriptstyle"}
\* Parser::parse_style_change
parse_style_change(p) ==
    LET r == lex_expanded_token(p)
    IN  CASE r.v.cat # "Primitive" -> [p |-> Panic(r.p, "Invalid style change"), v |-> ""]
          [] r.v.name = "displaystyle" -> [p |-> r.p, v |-> "DisplayStyle"]
          [] r.v.name = "textstyle" -> [p |-> r.p, v |-> "TextStyle"]
          [] r.v.name = "scriptstyle" -> [p |-> r.p, v |-> "ScriptStyle"]
          [] r.v.name = "scriptscriptstyle" -> [p |-> r.p, v |-> "ScriptScriptStyle"]
          [] OTHER -> [p |-> Panic(r.p, "Invalid style change"), v |-> ""]

RECURSIVE parse_math_group(_)
RECURSIVE parse_math_list_from(_, _)

\* parse_math_list that reads the token it stops at
parse_math_list_consuming_terminator(p) ==
    LET r == parse_math_list_from(p, <<>>)
    IN  IF r.p.panic # "" THEN r ELSE [p |-> lex_expanded_token(r.p).p, v |-> r.v]

\* Parser::parse_math_list
parse_math_list(p) == parse_math_list_from(p, <<>>)

\* Parser::parse_math_field
parse_math_field(p) ==
    LET p1 == parse_filler_expanded(p)
    IN  IF is_math_symbol_head(p1)
        THEN LET r == parse_math_symbol(p1)
             IN  [p |-> r.p, v |-> symbol_from_math_code(r.v)]
        ELSE LET r == parse_math_group(p1)
             IN  [p |-> r.p, v |-> MathListField(r.v)]

\* parse_math_superscript that replaces a superscript the atom has already
parse_math_superscript_overwrites(p, atom) ==
    LET p1 == lex_expanded_token(p).p
        r == parse_math_field(p1)
    IN  [p |-> r.p, v |-> [atom EXCEPT !.superscript = r.v]]

\* Parser::parse_math_superscript
parse_math_superscript(p, atom) ==
    LET p1 == lex_expanded_token(p).p
    IN  IF has_superscript(atom)
        THEN [p |-> Panic(p1, "Double superscript"), v |-> atom]
        ELSE LET r == parse_math_field(p1)
             IN  [p |-> r.p, v |-> [atom EXCEPT !.superscript = r.v]]

\* Parser::parse_math_subscript
parse_math_subscript(p, atom) ==
    LET p1 == lex_expanded_token(p).p
    IN  IF has_subscript(atom)
        THEN [p |-> Panic(p1, "Double subscript"), v |-> atom]
        ELSE LET r == parse_math_field(p1)
             IN  [p |-> r.p, v |-> [atom EXCEPT !.subscript = r.v]]

\* the loop of parse_math_list with every script on a new empty atom
parse_math_list_from_script_on_new_atom(p, current_list) ==
    IF is_math_symbol_head(p)
    THEN LET r == parse_math_symbol(p)
         IN  IF r.p.panic # ""
             THEN [p |-> r.p, v |-> current_list]
             ELSE parse_math_list_from(r.p, Append(current_list, from_math_code(r.v)))
    ELSE IF is_math_superscript_head(p) \/ is_math_subscript_head(p)
    THEN LET r == IF is_math_superscript_head(p)
                  THEN parse_math_superscript(p, empty_ord)
                  ELSE parse_math_subscript(p, empty_ord)
         IN  IF r.p.panic # ""
             THEN [p |-> r.p, v |-> current_list]
             ELSE parse_math_list_from(r.p, Append(current_list, r.v))
    ELSE IF is_assignment_head(p)
    THEN parse_math_list_from(parse_assignment(p), current_list)
    ELSE IF is_style_change_head(p)
    THEN LET r == parse_style_change(p)
         IN  IF r.p.panic # ""
             THEN [p |-> r.p, v |-> current_list]
             ELSE parse_math_list_from(r.p, Append(current_list, StyleChange(r.v)))
    ELSE IF peek_expanded_token(p).cat \in {"EndGroup", "MathShift", "None"}
    THEN [p |-> p, v |-> current_list]
    ELSE [p |-> Panic(p, "unimplemented"), v |-> current_list]

\* the loop of Parser::parse_math_list, with current_list as it stands
parse_math_list_from(p, current_list) ==
    IF is_math_symbol_head(p)
    THEN LET r == parse_math_symbol(p)
         IN  IF r.p.panic # ""
             THEN [p |-> r.p, v |-> current_list]
             ELSE parse_math_list_from(r.p, Append(current_list, from_math_code(r.v)))
    ELSE IF is_math_superscript_head(p) \/ is_math_subscript_head(p)
    THEN LET is_superscript == is_math_superscript_head(p)
             n == Len(current_list)
             popped_atom == n > 0 /\ current_list[n].type = "Atom"
             last_atom == IF popped_atom THEN current_list[n] ELSE empty_ord
             list1 == IF popped_atom THEN SubSeq(current_list, 1, n - 1) ELSE current_list
             r == IF is_superscript
                  THEN parse_math_superscript(p, last_atom)
                  ELSE parse_math_subscript(p, last_atom)
         IN  IF r.p.panic # ""
             THEN [p |-> r.p, v |-> list1]
             ELSE parse_math_list_from(r.p, Append(list1, r.v))
    ELSE IF is_assignment_head(p)
    THEN parse_math_list_from(parse_assignment(p), current_list)
    ELSE IF is_style_change_head(p)
    THEN LET r == parse_style_change(p)
         IN  IF r.p.panic # ""
             THEN [p |-> r.p, v |-> current_list]
             ELSE parse_math_list_from(r.p, Append(current_list, StyleChange(r.v)))
    ELSE IF peek_expanded_token(p).cat \in {"EndGroup", "MathShift", "None"}
    THEN [p |-> p, v |-> current_list]
    ELSE [p |-> Panic(p, "unimplemented"), v |-> current_list]

\* parse_math_group that opens no scope for the group
parse_math_group_unscoped(p) ==
    LET begin_group == lex_expanded_token(p)
    IN  IF begin_group.v.cat # "BeginGroup"
        THEN [p |-> Panic(begin_group.p, "Invalid start of math group"), v |-> <<>>]
        ELSE LET math_list == parse_math_list(begin_group.p)
             IN  IF math_list.p.panic # ""
                 THEN math_list
                 ELSE LET end_group == lex_expanded_token(math_list.p)
                      IN  IF end_group.v.cat # "EndGroup"
                          THEN [p |-> Panic(end_group.p,
                                            "Math group didn't end with an EndGroup"),
                                v |-> <<>>]
                          ELSE [p |-> end_group.p, v |-> math_list.v]

\* parse_math_group that takes any token for the end of the group
parse_math_group_any_end(p) ==
    LET begin_group == lex_expanded_token(p)
    IN  IF begin_group.v.cat # "BeginGroup"
        THEN [p |-> Panic(begin_group.p, "Invalid start of math group"), v |-> <<>>]
        ELSE LET p1 == push_state(begin_group.p)
                 math_list == parse_math_list(p1)
             IN  IF math_list.p.panic # ""
                 THEN math_list
                 ELSE LET p2 == pop_state(math_list.p)
                          end_group == lex_expanded_token(p2)
                      IN  [p |-> end_group.p, v |-> math_list.v]

\* Parser::parse_math_group
parse_math_group(p) ==
    LET begin_group == lex_expanded_token(p)
    IN  IF begin_group.v.cat # "BeginGroup"
        THEN [p |-> Panic(begin_group.p, "Invalid start of math group"), v |-> <<>>]
        ELSE LET p1 == push_state(begin_group.p)
                 math_list == parse_math_list(p1)
             IN  IF math_list.p.panic # ""
                 THEN math_list
                 ELSE LET p2 == pop_state(math_list.p)
                          end_group == lex_expanded_token(p2)
                      IN  IF end_group.v.cat # "EndGroup"
                          THEN [p |-> Panic(end_group.p,
                                            "Math group didn't end with an EndGroup"),
                                v |-> <<>>]
                          ELSE [p |-> end_group.p, v |-> math_list.v]

(***************************************************************************)
(* The parser specification: one call of parse_math_group or of            *)
(* parse_math_list on a parser whose input is a sequence of the tokens     *)
(* below and whose state has one or two scopes.                            *)
(***************************************************************************)
\* the longest input drawn from all the sequences of tokens
MaxTokens == 4

BeginGroupTok == CharTok("BeginGroup", 123)
EndGroupTok == CharTok("EndGroup", 125)
SuperscriptTok == CharTok("Superscript", 94)
SubscriptTok == CharTok("Subscript", 95)
MathShiftTok == CharTok("MathShift", 36)
SpaceTok == CharTok("Space", 32)
LetterTok == CharTok("Letter", 97)

Tokens ==
    {BeginGroupTok, EndGroupTok, SuperscriptTok, SubscriptTok, MathShiftTok,
     SpaceTok, LetterTok, AssignTok(0, 2), PrimTok("scriptstyle"), UnknownTok}

\* longer inputs: groups in scripts, with assignments at each depth
TokenSamples ==
    {<<BeginGroupTok, LetterTok, SuperscriptTok, BeginGroupTok, AssignTok(0, 2),
       EndGroupTok, EndGroupTok>>,
     <<BeginGroupTok, AssignTok(1, 3), LetterTok, SubscriptTok, SpaceTok,
       BeginGroupTok, AssignTok(0, 2), LetterTok, SuperscriptTok, BeginGroupTok,
       AssignTok(1, 4), EndGroupTok, EndGroupTok, AssignTok(0, 5), EndGroupTok,
       LetterTok>>,
     <<BeginGroupTok, SuperscriptTok, BeginGroupTok, EndGroupTok, SubscriptTok,
       BeginGroupTok, AssignTok(0, 2), EndGroupTok, EndGroupTok>>,
     <<BeginGroupTok, LetterTok, SuperscriptTok, BeginGroupTok, AssignTok(0, 2),
       EndGroupTok, MathShiftTok>>,
     <<BeginGroupTok, LetterTok, SuperscriptTok, BeginGroupTok, AssignTok(0, 2),
       UnknownTok, EndGroupTok, EndGroupTok>>}

\* the scopes of the state before the call: \count 0=1 outside any group,
\* and the same inside a group that assigns \count 1=6
ScopeInputs == {<<[reg \in {0} |-> 1]>>, <<[reg \in {0} |-> 1], [reg \in {1} |-> 6]>>}
Registers == {0, 1}

\* the inputs of the tests of parse_math_list: a^a^a, a^a_a^a, a_a_a,
\* a_a^a_a, a^a_a, a_a^a, a^a a^{ab}, \displaystyle ^a, a$, and two more:
\* ^a\displaystyle _ab^a_{} and a^{a}_{a}$a
ListSamples ==
    {<<LetterTok, SuperscriptTok, LetterTok, SuperscriptTok, LetterTok>>,
     <<LetterTok, SuperscriptTok, LetterTok, SubscriptTok, LetterTok,
       SuperscriptTok, LetterTok>>,
     <<LetterTok, SubscriptTok, LetterTok, SubscriptTok, LetterTok>>,
     <<LetterTok, SubscriptTok, LetterTok, SuperscriptTok, LetterTok,
       SubscriptTok, LetterTok>>,
     <<LetterTok, SuperscriptTok, LetterTok, SubscriptTok, LetterTok>>,
     <<LetterTok, SubscriptTok, LetterTok, SuperscriptTok, LetterTok>>,
     <<LetterTok, SuperscriptTok, LetterTok, LetterTok, SuperscriptTok,
       BeginGroupTok, LetterTok, CharTok("Letter", 98), EndGroupTok>>,
     <<PrimTok("displaystyle"), SuperscriptTok, LetterTok>>,
     <<SuperscriptTok, LetterTok, PrimTok("displaystyle"), SubscriptTok, LetterTok,
       CharTok("Letter", 98), SuperscriptTok, LetterTok, SubscriptTok,
       BeginGroupTok, EndGroupTok>>,
     <<LetterTok, MathShiftTok>>,
     <<LetterTok, SuperscriptTok, BeginGroupTok, LetterTok, EndGroupTok,
       SubscriptTok, BeginGroupTok, LetterTok, EndGroupTok, MathShiftTok,
       LetterTok>>}

ParseGroupCall(tokens, scopes) ==
    [call |-> "parse_math_group", tokens |-> tokens, scopes |-> scopes]
ParseListCall(tokens, scopes) ==
    [call |-> "parse_math_list", tokens |-> tokens, scopes |-> scopes]

InitParse ==
    /\ commands = new.commands
    /\ stack_depth = new.stack_depth
    /\ last_page_start = new.last_page_start
    /\ curr_font_num = new.curr_font_num
    /\ font_nums = new.font_nums
    /\ next_font_num = new.next_font_num
    /\ panicked = new.panicked
    /\ char_log = new.char_log
    /\ last_op = NoOp
    /\ n_ops = 0
    /\ \/ \E n \in 0..MaxTokens, scopes \in ScopeInputs :
            \E tokens \in SeqsOf(Tokens, n) : math_in = ParseGroupCall(tokens, scopes)
       \/ \E tokens \in TokenSamples, scopes \in ScopeInputs :
            math_in = ParseGroupCall(tokens, scopes)
       \/ \E n \in 0..MaxTokens, scopes \in ScopeInputs :
            \E tokens \in SeqsOf(Tokens, n) : math_in = ParseListCall(tokens, scopes)
       \/ \E tokens \in ListSamples, scopes \in ScopeInputs :
            math_in = ParseListCall(tokens, scopes)
    /\ math_out = NoCall
    /\ pack_in = NoCall
    /\ pack_out = NoCall
    /\ run = NoCall

ParseMathGroup ==
    /\ math_out = NoCall
    /\ math_in.call = "parse_math_group"
    /\ LET r == parse_math_group(NewParser(math_in.tokens, math_in.scopes))
       IN  math_out' = [panic |-> r.p.panic, list |-> r.v, parser |-> r.p]
    /\ UNCHANGED <<math_in, writer_vars, pack_in, pack_out, run>>

ParseMathList ==
    /\ math_out = NoCall
    /\ math_in.call = "parse_math_list"
    /\ LET r == parse_math_list(NewParser(math_in.tokens, math_in.scopes))
       IN  math_out' = [panic |-> r.p.panic, list |-> r.v, parser |-> r.p]
    /\ UNCHANGED <<math_in, writer_vars, pack_in, pack_out, run>>

NextParse ==
    \/ ParseMathGroup
    \/ ParseMathList

SpecParse == InitParse /\ [][NextParse]_vars

\* the call of parse_math_group under check is over
ParsedGroup == math_in.call = "parse_math_group" /\ math_out # NoCall
\* the call of parse_math_list under check is over
ParsedList == math_in.call = "parse_math_list" /\ math_out # NoCall

(***************************************************************************)
(* C18: parse_math_group pushes one scope after the opening brace and pops *)
(* one after the inner list: on every return the first push is at the      *)
(* token after the brace, the last pop at the closing brace, the pushes    *)
(* and pops between them are balanced and never close the scope of the     *)
(* group, the scopes are as deep as before the call, and every count       *)
(* register reads as before the call, whatever was assigned in the group   *)
(* or in the groups of its scripts.                                        *)
(***************************************************************************)
\* the scopes opened and not yet closed after the first k pushes and pops
OpenAfter(log, k) ==
    Cardinality({i \in 1..k : log[i].op = "push"})
        - Cardinality({i \in 1..k : log[i].op = "pop"})

C18_GroupScopeBalanced ==
    (ParsedGroup /\ Returned) =>
        LET p == math_out.parser
            log == p.scope_log
        IN  /\ Len(p.scopes) = Len(math_in.scopes)
            /\ \A reg \in Registers :
                 get_count(p.scopes, reg) = get_count(math_in.scopes, reg)
            /\ Len(log) >= 2
            /\ log[1] = [op |-> "push", pos |-> 2]
            /\ log[Len(log)] = [op |-> "pop", pos |-> p.pos - 1]
            /\ \A k \in 1..(Len(log) - 1) : OpenAfter(log, k) >= 1
            /\ OpenAfter(log, Len(log)) = 0

\* a group that assigns both registers, with a subscript group and, inside
\* it, a superscript group that assign them too: three scopes opened and
\* closed, \count 0 and \count 1 as before
C18_Witness ==
    /\ ParsedGroup /\ Returned
    /\ Len(math_in.tokens) = 16
    /\ Len(math_in.scopes) = 2
    /\ Len(math_out.parser.scope_log) = 6
    /\ math_out.parser.pos = 16
    /\ get_count(math_out.parser.scopes, 0) = 1
    /\ get_count(math_out.parser.scopes, 1) = 6

(***************************************************************************)
(* C19 as stated: when add_page fails while it serializes a page, the      *)
(* buffer holds no command of that page; the buffer never holds a Bop that *)
(* is not followed by its Eop.                                             *)
(***************************************************************************)
C19_NoPartialPageOnError ==
    /\ \A i \in IdxOf("Bop") :
         \E j \in IdxOf("Eop") : i < j /\ NoneBetween("Bop", i, j)
    /\ (panicked /\ last_op.name = "add_page") => commands = last_op.pre.commands

(***************************************************************************)
(* C20: switch_to_font on a font that is not registered and whose metrics  *)
(* cannot be loaded panics, and the writer it leaves has the commands, the *)
(* font_nums and the curr_font_num it had before the call: no FntDef4 and  *)
(* no Fnt4 was appended and the name was not registered.                   *)
(***************************************************************************)
C20_UnknownFontFailsCleanly ==
    (/\ last_op.name = "switch_to_font"
     /\ last_op.arg \notin DOMAIN last_op.pre.font_nums
     /\ ~get_metrics_for_font(last_op.arg).ok) =>
        /\ panicked
        /\ commands = last_op.pre.commands
        /\ \A i \in IdxOf("FntDef4") : commands[i].font_name # last_op.arg
        /\ font_nums = last_op.pre.font_nums
        /\ last_op.arg \notin DOMAIN font_nums
        /\ curr_font_num = last_op.pre.curr_font_num

\* the failing call on a writer that has a font selected and commands in
\* its buffer
C20_Witness ==
    /\ last_op.name = "switch_to_font"
    /\ last_op.arg = "nofont"
    /\ panicked
    /\ curr_font_num >= 0
    /\ DOMAIN font_nums = {"cmr10", "cmr7"}
    /\ Len(commands) >= 4

(***************************************************************************)
(* The FntDef4 of a font.  A call that uses a font the writer has not      *)
(* registered begins what it appends for that font with the FntDef4; the   *)
(* calls of a session use new fonts through switch_to_font, directly or    *)
(* for a character.                                                        *)
(***************************************************************************)
\* the FntDef4 the writer emits for font when next_font_num is font_num,
\* with the given scale and design size
FntDef4For(font, font_num, size) ==
    FntDef4(font_num, get_metrics_for_font(font).checksum, size, size, 0,
            Len(font) % 256, font)

\* every FntDef4 of the stream is the one of its font with this scale and
\* design size, numbered by its rank among the FntDef4, and a call of
\* switch_to_font with an unregistered font appends it first
FntDef4Carries(size) ==
    /\ \A i \in IdxOf("FntDef4") :
         commands[i] = FntDef4For(commands[i].font_name,
                                  Cardinality({k \in IdxOf("FntDef4") : k < i}), size)
    /\ (Completed("switch_to_font") /\ last_op.arg \notin DOMAIN last_op.pre.font_nums)
         => /\ Appended # <<>>
            /\ Appended[1] = FntDef4For(last_op.arg, last_op.pre.next_font_num, size)
            /\ font_nums[last_op.arg] = last_op.pre.next_font_num

OperandWidths(command) ==
    CASE command.op = "SetCharN" -> <<>>
      [] command.op = "Set1"     -> <<1>>
      [] command.op = "Right4"   -> <<4>>
      [] command.op = "Down4"    -> <<4>>
      [] command.op = "Fnt4"     -> <<4>>
      [] command.op = "FntDef4"  -> <<4, 4, 4, 4, 1, 1, Len(command.font_name)>>
      [] command.op = "Push"     -> <<>>
      [] command.op = "Pop"      -> <<>>
      [] command.op = "Bop"      -> <<4, 4, 4, 4, 4, 4, 4, 4, 4, 4, 4>>
      [] command.op = "Eop"      -> <<>>

RECURSIVE SumOf(_, _)
\* the sum of the first n numbers of seq
SumOf(seq, n) == IF n = 0 THEN 0 ELSE SumOf(seq, n - 1) + seq[n]

\* the opcode and the operands
EncodedSize(command) == 1 + SumOf(OperandWidths(command), Len(OperandWidths(command)))

SizeTable(command, fnt_def) ==
    CASE command.op = "SetCharN" -> 1
      [] command.op = "Set1"     -> 2
      [] command.op = "Right4"   -> 5
      [] command.op = "Down4"    -> 5
      [] command.op = "Fnt4"     -> 5
      [] command.op = "Push"     -> 1
      [] command.op = "Pop"      -> 1
      [] command.op = "Bop"      -> 45
      [] command.op = "Eop"      -> 1
      [] command.op = "FntDef4"  -> fnt_def + command.length

RECURSIVE SumSizeTable(_, _, _)
\* the sum of the table's sizes over the first n commands of cmds
SumSizeTable(cmds, n, fnt_def) ==
    IF n = 0 THEN 0
    ELSE SumSizeTable(cmds, n - 1, fnt_def) + SizeTable(cmds[n], fnt_def)

\* byte_size of every command of the stream is its size in the table, and
\* the offset add_page stores and the pointer it writes are sums of the
\* table's sizes: over the commands before the page, and over those before
\* the page before it
SizesAre(fnt_def) ==
    /\ \A i \in Idx : byte_size(commands[i]) = SizeTable(commands[i], fnt_def)
    /\ \A i \in IdxOf("Bop") :
         commands[i].pointer =
             IF \E k \in IdxOf("Bop") : k < i
             THEN SumSizeTable(commands, PrevBop(i) - 1, fnt_def)
             ELSE -1
    /\ IdxOf("Bop") # {} =>
         last_page_start = SumSizeTable(commands, Max(IdxOf("Bop")) - 1, fnt_def)

(***************************************************************************)
(* C22 as stated: byte_size of every command is its size in the table,     *)
(* with 18 + the length of its font name for FntDef4, and the page offsets *)
(* that add_page stores are sums of these sizes.                           *)
(***************************************************************************)
C22_Original == SizesAre(18)

(***************************************************************************)
(* C22 as amended: byte_size of every command is its size in the table,    *)
(* with 19 + the length of its font name for FntDef4 (the opcode and the   *)
(* operands of the encoding), and the page offsets that add_page stores    *)
(* are sums of these sizes.                                                *)
(***************************************************************************)
C22_ByteSizeOfEncoding ==
    /\ SizesAre(19)
    /\ \A i \in Idx : byte_size(commands[i]) = EncodedSize(commands[i])

\* a second page after a page with commands of all ten kinds
C22_Witness ==
    /\ Completed("add_page")
    /\ Cardinality(IdxOf("Bop")) = 2
    /\ {OpAt(i) : i \in 1..(Max(IdxOf("Bop")) - 1)} =
           {"SetCharN", "Set1", "Right4", "Down4", "Fnt4", "FntDef4", "Push",
            "Pop", "Bop", "Eop"}
    /\ last_page_start > 45

(***************************************************************************)
(* C23: when three pages were added to a new writer and the first page     *)
(* emitted Bop, 3 Push, 3 Pop, one FntDef4 for a font name of 5 letters,   *)
(* one Fnt4, 2 SetCharN, 4 Down4 and Eop, the three Bop pointers are -1, 0 *)
(* and 103, the byte length of page 1.                                     *)
(***************************************************************************)
\* the number of commands name among the first n
CountUpTo(name, n) == Cardinality({k \in 1..n : OpAt(k) = name})

\* the stream begins with a page of the composition of page 1 of the test
FirstPageOfTest ==
    /\ IdxOf("Eop") # {}
    /\ OpAt(1) = "Bop"
    /\ LET e == CHOOSE k \in IdxOf("Eop") : \A j \in IdxOf("Eop") : k <= j
       IN  /\ e = 16
           /\ CountUpTo("Bop", e) = 1
           /\ CountUpTo("Push", e) = 3
           /\ CountUpTo("Pop", e) = 3
           /\ CountUpTo("FntDef4", e) = 1
           /\ \A k \in 1..e : OpAt(k) = "FntDef4" => Len(commands[k].font_name) = 5
           /\ CountUpTo("Fnt4", e) = 1
           /\ CountUpTo("SetCharN", e) = 2
           /\ CountUpTo("Down4", e) = 4

\* the pointers of the Bop commands, in the order of the stream
RECURSIVE BopPointers(_)
BopPointers(n) ==
    IF n = 0 THEN <<>>
    ELSE IF OpAt(n) = "Bop" THEN Append(BopPointers(n - 1), commands[n].pointer)
         ELSE BopPointers(n - 1)

C23_ThreePagePointers ==
    (/\ FirstPageOfTest
     /\ n_ops = 3
     /\ Cardinality(IdxOf("Bop")) = 3
     /\ Completed("add_page"))
        => /\ BopPointers(Len(commands)) = <<-1, 0, 103>>
           /\ SumByteSize(commands, 16) = 103
           /\ last_page_start > 103

\* the three pages of the test: g and a, then two pages of one character
C23_Witness ==
    /\ Completed("add_page")
    /\ n_ops = 3
    /\ Cardinality(IdxOf("Eop")) = 3
    /\ FirstPageOfTest
    /\ SubSeq(commands, 1, 16) =
          <<Bop(<<1, 0, 0, 0, 0, 0, 0, 0, 0, 0>>, -1), Push, Push,
            FntDef4(0, 1010, 655360, 655360, 0, 5, "cmr10"), Fnt4(0),
            SetCharN(103), Pop, Down4(6 * Pt), Down4(0), Down4(376833), Push,
            SetCharN(97), Pop, Down4(3 * Pt), Pop, Eop>>
    /\ last_op.arg[1] = PageG
    /\ commands[Max(IdxOf("Bop"))].pointer = 103

(***************************************************************************)
(* Box packaging.  A list is packaged into a box with a layout: Natural,   *)
(* or Fixed to a target size.  The natural length of a horizontal list is  *)
(* the sum of the widths of its characters and boxes and of the spaces of  *)
(* its skips; that of a vertical list is the sum of height + depth of its  *)
(* boxes and of the spaces of its skips.  The glue of the list is set by   *)
(* choosing the ratio that brings the natural length to the target.        *)
(***************************************************************************)
\* the metrics of the letters A a G g Z z of cmr10, in scaled points
get_width(chr) ==
    CASE chr = 65  -> 491521
      [] chr = 97  -> 327681
      [] chr = 71  -> 514276
      [] chr = 103 -> 327681
      [] chr = 90  -> 400498
      [] chr = 122 -> 291271
get_height(chr) == IF chr \in {65, 71, 90} THEN 447828 ELSE 282168
get_depth(chr) == IF chr = 103 THEN 127431 ELSE 0

Natural == [kind |-> "Natural"]
Fixed(to) == [kind |-> "Fixed", to |-> to]

RECURSIVE SumSeq(_, _)
\* the sum of the first n numbers of seq
SumSeq(seq, n) == IF n = 0 THEN 0 ELSE SumSeq(seq, n - 1) + seq[n]
Sum(seq) == SumSeq(seq, Len(seq))
MaxOf(seq) == IF seq = <<>> THEN 0 ELSE Max({seq[i] : i \in 1..Len(seq)} \cup {0})

\* the size of an element along its list, at the natural space of a skip
natural_size(elem, variant) ==
    CASE elem.type = "Char" -> get_width(elem.chr)
      [] elem.type \in {"HSkip", "VSkip"} -> elem.glue.space
      [] elem.type = "Box" ->
           IF variant = "HorizontalBox" THEN elem.box.width
           ELSE elem.box.height + elem.box.depth

\* L: the natural length of a list
natural_length(list, variant) ==
    Sum([i \in 1..Len(list) |-> natural_size(list[i], variant)])

IsSkip(elem) == elem.type \in {"HSkip", "VSkip"}

\* S_k and T_k: the total stretch and the total shrink of order k
total_stretch(list, k) ==
    Sum([i \in 1..Len(list) |->
           IF IsSkip(list[i]) /\ list[i].glue.stretch.order = k
           THEN list[i].glue.stretch.amt ELSE 0])
total_shrink(list, k) ==
    Sum([i \in 1..Len(list) |->
           IF IsSkip(list[i]) /\ list[i].glue.shrink.order = k
           THEN list[i].glue.shrink.amt ELSE 0])

OrderKind(k) ==
    CASE k = 0 -> "Finite"
      [] k = 1 -> "Fil"
      [] k = 2 -> "Fill"
      [] k = 3 -> "Filll"

RECURSIVE GCD(_, _)
GCD(a, b) == IF b = 0 THEN a ELSE GCD(b, a % b)

\* the ratio num / den (den > 0) of kind, in lowest terms
RatioOf(kind, num, den) ==
    LET g == GCD(IF num < 0 THEN -num ELSE num, den)
    IN  IF num < 0 THEN SomeRatio(kind, -((-num) \div g), den \div g)
        ELSE SomeRatio(kind, num \div g, den \div g)

\* the ratio that sets a list of natural length L to the length W, ignoring
\* the order of the springs: the finite stretch or shrink is always used
set_glue_finite_only(list, L, W) ==
    LET delta == W - L
        S == total_stretch(list, 0)
        T == total_shrink(list, 0)
    IN  IF delta > 0 /\ S > 0 THEN RatioOf("Finite", delta, S)
        ELSE IF delta < 0 /\ T > 0
             THEN IF -delta > T THEN SomeRatio("Finite", -1, 1)
                  ELSE RatioOf("Finite", delta, T)
             ELSE NoRatio

\* the ratio that sets a list of natural length L to the length W
set_glue(list, L, W) ==
    LET delta == W - L
        stretch_orders == {k \in 0..3 : total_stretch(list, k) > 0}
        shrink_orders == {k \in 0..3 : total_shrink(list, k) > 0}
    IN  IF delta > 0 /\ stretch_orders # {}
        THEN LET k == Max(stretch_orders)
             IN  RatioOf(OrderKind(k), delta, total_stretch(list, k))
        ELSE IF delta < 0 /\ shrink_orders # {}
             THEN LET k == Max(shrink_orders)
                      T == total_shrink(list, k)
                  IN  IF k = 0 /\ -delta > T
                      THEN SomeRatio("Finite", -1, 1)
                      ELSE RatioOf(OrderKind(k), delta, T)
             ELSE NoRatio

\* the height and the depth of a horizontal list, the width of a vertical
\* list: the largest of its elements
list_height(list) ==
    MaxOf([i \in 1..Len(list) |->
             CASE list[i].type = "Char" -> get_height(list[i].chr)
               [] list[i].type = "Box" -> list[i].box.height
               [] OTHER -> 0])
list_depth(list) ==
    MaxOf([i \in 1..Len(list) |->
             CASE list[i].type = "Char" -> get_depth(list[i].chr)
               [] list[i].type = "Box" -> list[i].box.depth
               [] OTHER -> 0])
list_width(list) ==
    MaxOf([i \in 1..Len(list) |->
             IF list[i].type = "Box" THEN list[i].box.width ELSE 0])

\* a horizontal box that reports the natural width of its list whatever
\* the layout
combine_horizontal_list_reporting_natural_width(list, layout) ==
    LET L == natural_length(list, "HorizontalBox")
        W == IF layout.kind = "Fixed" THEN layout.to ELSE L
    IN  HorizontalBox(list_height(list), list_depth(list), L, list,
                      set_glue(list, L, W))

\* combine_horizontal_list_into_horizontal_box_with_layout
combine_horizontal_list_into_horizontal_box_with_layout(list, layout) ==
    LET L == natural_length(list, "HorizontalBox")
        W == IF layout.kind = "Fixed" THEN layout.to ELSE L
    IN  HorizontalBox(list_height(list), list_depth(list), W, list,
                      set_glue(list, L, W))

\* the same for a vertical list: the target is the height + depth of the
\* box, and the box has no depth
combine_vertical_list_into_vertical_box_with_layout(list, layout) ==
    LET L == natural_length(list, "VerticalBox")
        W == IF layout.kind = "Fixed" THEN layout.to ELSE L
    IN  VerticalBox(W, 0, list_width(list), list, set_glue(list, L, W))

(***************************************************************************)
(* SpecPack: one list is packaged with one layout, and the box is then     *)
(* given to add_box of a new writer.                                       *)
(***************************************************************************)
MaxPackLen == 3

\* the skips of tests::it_parses_horizontal_boxes, a skip that shrinks
\* without limit and a skip without stretch or shrink
PackGlues ==
    {Glue(5 * Pt, Dimen(2 * Pt), Dimen(2 * Pt)),
     Glue(3 * Pt, FilDimen(1, Pt), Dimen(Pt)),
     Glue(Pt, Dimen(Pt), FilDimen(2, Pt)),
     Glue(2 * Pt, Dimen(0), Dimen(0))}
HorizontalPackElems ==
    {Char(65, "cmr10"), Char(103, "cmr10"), BoxElem(BoxG)}
        \cup {HSkip(glue) : glue \in PackGlues}
VerticalPackElems ==
    {BoxElem(BoxG), BoxElem(BoxA)} \cup {VSkip(glue) : glue \in PackGlues}

\* \boxcontents of the test: Aa, a skip, Gg, a skip, Zz
BoxContents ==
    <<Char(65, "cmr10"), Char(97, "cmr10"),
      HSkip(Glue(5 * Pt, Dimen(2 * Pt), Dimen(2 * Pt))),
      Char(71, "cmr10"), Char(103, "cmr10"),
      HSkip(Glue(3 * Pt, FilDimen(1, Pt), Dimen(Pt))),
      Char(90, "cmr10"), Char(122, "cmr10")>>
\* \hbox{..}, \hbox to50pt{..} and \hbox to42pt{..}
TestLayouts == {Natural, Fixed(50 * Pt), Fixed(42 * Pt)}

\* the differences between the target and the natural length
PackDeltas == {-3 * Pt, -Pt, -1, 0, 2, Pt, 4 * Pt}

PackCall(variant, list, layout) ==
    [call |-> "pack", variant |-> variant, list |-> list, layout |-> layout]

\* the layouts a list is packaged with: Natural, and Fixed at each
\* difference from its natural length that leaves a target of 0 or more
LayoutsOf(list, variant) ==
    {Natural} \cup
    {Fixed(natural_length(list, variant) + delta) :
        delta \in {d \in PackDeltas : natural_length(list, variant) + d >= 0}}

InitPack ==
    /\ commands = new.commands
    /\ stack_depth = new.stack_depth
    /\ last_page_start = new.last_page_start
    /\ curr_font_num = new.curr_font_num
    /\ font_nums = new.font_nums
    /\ next_font_num = new.next_font_num
    /\ panicked = new.panicked
    /\ char_log = new.char_log
    /\ last_op = NoOp
    /\ n_ops = 0
    /\ math_in = NoCall
    /\ math_out = NoCall
    /\ \/ \E n \in 0..MaxPackLen : \E list \in SeqsOf(HorizontalPackElems, n) :
            \E layout \in LayoutsOf(list, "HorizontalBox") :
                pack_in = PackCall("HorizontalBox", list, layout)
       \/ \E n \in 0..MaxPackLen : \E list \in SeqsOf(VerticalPackElems, n) :
            \E layout \in LayoutsOf(list, "VerticalBox") :
                pack_in = PackCall("VerticalBox", list, layout)
       \/ \E layout \in TestLayouts :
            pack_in = PackCall("HorizontalBox", BoxContents, layout)
    /\ pack_out = NoCall
    /\ run = NoCall

\* the list is packaged
Package ==
    /\ pack_out = NoCall
    /\ pack_in.call = "pack"
    /\ pack_out' =
         IF pack_in.variant = "HorizontalBox"
         THEN combine_horizontal_list_into_horizontal_box_with_layout(
                  pack_in.list, pack_in.layout)
         ELSE combine_vertical_list_into_vertical_box_with_layout(
                  pack_in.list, pack_in.layout)
    /\ UNCHANGED <<pack_in, writer_vars, math_in, math_out, run>>

\* the packaged box is written
EmitBox ==
    /\ pack_out # NoCall
    /\ last_op.name = "new"
    /\ Install(add_box(Writer, pack_out))
    /\ Called("add_box", pack_out, NoRatio)

NextPack ==
    \/ Package
    \/ EmitBox

SpecPack == InitPack /\ [][NextPack]_vars

Packaged == pack_out # NoCall
PackedLength == natural_length(pack_in.list, pack_in.variant)
\* the target of the call: the natural length when the layout is Natural
PackedTarget ==
    IF pack_in.layout.kind = "Fixed" THEN pack_in.layout.to ELSE PackedLength
\* the dimension of the box along its list
PackedDimension ==
    IF pack_out.variant = "HorizontalBox" THEN pack_out.width
    ELSE pack_out.height + pack_out.depth

(***************************************************************************)
(* C24: packaging a list of natural length L to a target W sets the ratio  *)
(* as follows.  If W > L: the kind is the highest order k whose total      *)
(* stretch S_k is not zero, the value (W - L) / S_k.  If W < L: the kind   *)
(* is the highest order k whose total shrink T_k is not zero, the value    *)
(* (W - L) / T_k, cut to -1 when k is finite and the value is below -1.    *)
(* Finite stretch or shrink is not used when an infinite one of the same   *)
(* direction is present.  When W = L or the list has no spring in the      *)
(* direction needed, the ratio is None.  Vertical lists follow the same    *)
(* rule on height + depth.                                                 *)
(***************************************************************************)
\* the ratio r has kind k, the highest order of a total that is not zero,
\* and the value delta / total(k), cut to -1 for a finite shrink when cut
RatioChosen(r, delta, total(_), cut) ==
    /\ r.some
    /\ LET k == KindOrder(r.kind)
       IN  /\ total(k) # 0
           /\ \A j \in (k + 1)..3 : total(j) = 0
           /\ IF cut /\ k = 0 /\ -delta > total(0)
              THEN r.num = -r.den
              ELSE r.num * total(k) = delta * r.den
           /\ (cut /\ k = 0) => (-r.num <= r.den)

C24_RatioOfPackaging ==
    Packaged =>
        LET delta == PackedTarget - PackedLength
            r == pack_out.glue_set_ratio
            S(k) == total_stretch(pack_in.list, k)
            T(k) == total_shrink(pack_in.list, k)
        IN  /\ r.den > 0
            /\ (delta > 0 /\ \E k \in 0..3 : S(k) # 0) => RatioChosen(r, delta, S, FALSE)
            /\ (delta < 0 /\ \E k \in 0..3 : T(k) # 0) => RatioChosen(r, delta, T, TRUE)
            /\ (delta = 0 \/ (delta > 0 /\ \A k \in 0..3 : S(k) = 0)
                          \/ (delta < 0 /\ \A k \in 0..3 : T(k) = 0)) => ~r.some

\* \hbox to50pt of the test: 399584 sp to gain, 2pt of finite stretch and
\* 1fil: the ratio is of kind Fil, 399584 / 65536
C24_Witness ==
    /\ Packaged
    /\ pack_in.list = BoxContents
    /\ pack_in.layout = Fixed(50 * Pt)
    /\ PackedLength = 2877216
    /\ pack_out.glue_set_ratio = SomeRatio("Fil", 12487, 2048)

(***************************************************************************)
(* The length a packaged box is set to when it is written: the operands of *)
(* the Right4 or Down4 commands of add_box (the skips under the ratio of   *)
(* the box, and the advances of the inner boxes, which make no moves of    *)
(* their own in the lists packaged here) and the widths of the characters. *)
(***************************************************************************)
Emitted == Packaged /\ Completed("add_box")
SetLength ==
    Sum(MovesIn(Appended)) +
    Sum([i \in 1..Len(pack_in.list) |->
           IF pack_in.list[i].type = "Char" THEN get_width(pack_in.list[i].chr) ELSE 0])
\* the number of skips of the list that the ratio of the box acts on
SkipsSet ==
    LET r == pack_out.glue_set_ratio
    IN  Cardinality({i \in 1..Len(pack_in.list) :
            /\ IsSkip(pack_in.list[i])
            /\ LET glue == pack_in.list[i].glue
                   spring == IF r.num >= 0 THEN glue.stretch ELSE glue.shrink
               IN  spring.order = KindOrder(r.kind) /\ spring.amt # 0})
\* the finite shrink of the list does not reach the target
ShrinkCut ==
    /\ PackedTarget < PackedLength
    /\ \A k \in 1..3 : total_shrink(pack_in.list, k) = 0
    /\ PackedLength - PackedTarget > total_shrink(pack_in.list, 0)

RECURSIVE CharsOf(_, _)
\* the character codes of list from element i on, those of inner boxes
\* included, in order
CharsOf(list, i) ==
    IF i > Len(list) THEN <<>>
    ELSE (CASE list[i].type = "Char" -> <<list[i].chr>>
            [] list[i].type = "Box" -> CharsOf(list[i].box.list, 1)
            [] OTHER -> <<>>) \o CharsOf(list, i + 1)

\* the operands of the character commands of seq, in order
CharsIn(seq) ==
    LET chars == SelectSeq(seq, LAMBDA c : c.op \in {"SetCharN", "Set1"})
    IN  [i \in 1..Len(chars) |-> chars[i].c]

C26_PackagedWidthIsTarget ==
    /\ Packaged =>
         /\ pack_in.layout.kind = "Fixed" => PackedDimension = pack_in.layout.to
         /\ pack_in.layout.kind = "Natural" => PackedDimension = PackedLength
         /\ pack_out.list = pack_in.list
         /\ pack_out.variant = pack_in.variant
         /\ pack_in.list = BoxContents =>
              /\ PackedLength = 2877216
              /\ pack_out.height = 447828
              /\ pack_out.depth = 127431
              /\ pack_out.width =
                   CASE pack_in.layout = Natural -> 2877216
                     [] pack_in.layout = Fixed(50 * Pt) -> 3276800
                     [] pack_in.layout = Fixed(42 * Pt) -> 2752512
    /\ Emitted => CharsIn(Appended) = CharsOf(pack_in.list, 1)

\* \hbox to42pt of the test, written: Aa Gg Zz
C26_Witness ==
    /\ Emitted
    /\ pack_in.list = BoxContents
    /\ pack_in.layout = Fixed(42 * Pt)
    /\ pack_out.width = 2752512
    /\ pack_out.glue_set_ratio.num < 0
    /\ CharsIn(Appended) = <<65, 97, 71, 103, 90, 122>>

(***************************************************************************)
(* Reading a call of parse_math_list by the prefixes of its input: the     *)
(* parse of the first k tokens alone.  When that parse returns after it    *)
(* has read them all, the parse of the whole input stands, before token    *)
(* k + 1, at the top of its loop with the same list.                       *)
(***************************************************************************)
PrefixParse(k) ==
    parse_math_list(NewParser(SubSeq(math_in.tokens, 1, k), math_in.scopes))
\* the loop of the call reads token k with the list of PrefixParse(k - 1)
AtLoop(k) ==
    /\ k \in 1..Len(math_in.tokens)
    /\ PrefixParse(k - 1).p.panic = ""
    /\ PrefixParse(k - 1).p.pos = k
IsScriptTok(tok) == tok.cat \in {"Superscript", "Subscript"}
\* the last element of list is an atom
EndsWithAtom(list) == list # <<>> /\ list[Len(list)].type = "Atom"

(***************************************************************************)
(* C27: an atom carries at most one superscript and at most one subscript. *)
(* When the loop of parse_math_list reads a superscript token and the last *)
(* element of its list is an atom with a superscript, the call fails with  *)
(* "Double superscript" once it has read that token, whether or not the    *)
(* atom has a subscript; the same with "Double subscript" for a subscript  *)
(* token.  It does not fail so at a script token when the last element has *)
(* no script of that kind: a^a_a and a_a^a give one atom with both.        *)
(***************************************************************************)
C27_NoDoubleScript ==
    ParsedList =>
        /\ \A k \in 1..Len(math_in.tokens) :
             (AtLoop(k) /\ IsScriptTok(math_in.tokens[k])) =>
                 LET list == PrefixParse(k - 1).v
                     sup == math_in.tokens[k].cat = "Superscript"
                     has == /\ EndsWithAtom(list)
                            /\ IF sup THEN has_superscript(list[Len(list)])
                               ELSE has_subscript(list[Len(list)])
                     failed_here == /\ math_out.panic \in {"Double superscript",
                                                           "Double subscript"}
                                    /\ math_out.parser.pos = k + 1
                 IN  /\ has => /\ failed_here
                               /\ math_out.panic = IF sup THEN "Double superscript"
                                                   ELSE "Double subscript"
                     /\ ~has => ~failed_here
        /\ math_in.tokens \in
               {<<LetterTok, SuperscriptTok, LetterTok, SubscriptTok, LetterTok>>,
                <<LetterTok, SubscriptTok, LetterTok, SuperscriptTok, LetterTok>>}
             => /\ Returned
                /\ math_out.list = <<MathAtom("Ord", Symbol(97), Symbol(97), Symbol(97))>>

\* a^a_a^a: the second superscript comes after a subscript
C27_Witness ==
    /\ ParsedList
    /\ math_in.tokens = <<LetterTok, SuperscriptTok, LetterTok, SubscriptTok,
                          LetterTok, SuperscriptTok, LetterTok>>
    /\ math_out.panic = "Double superscript"
    /\ math_out.parser.pos = 7

(***************************************************************************)
(* C28: a superscript or subscript read by the loop of parse_math_list     *)
(* goes to the last element of the list when that element is an atom,      *)
(* which is replaced in place: the list keeps its length.  When the list   *)
(* is empty or its last element is not an atom, it goes to a new empty Ord *)
(* atom appended to the list, which grows by one.  The other elements keep *)
(* their value and place, and the atom keeps its kind, its nucleus and its *)
(* other script.                                                           *)
(***************************************************************************)
\* the prefixes from token k on that parse_math_list reads to their end
\* and returns on: the first of them ends with the field of a script at k
ParsedPrefixes(k) ==
    {j \in k..Len(math_in.tokens) :
        PrefixParse(j).p.panic = "" /\ PrefixParse(j).p.pos = j + 1}
Min(S) == CHOOSE m \in S : \A k \in S : m <= k
\* the list of the call when the loop has read the first j tokens
ListAt(j) ==
    IF j = Len(math_in.tokens) THEN math_out.list ELSE PrefixParse(j).v

\* after is before with the script of token tok attached
ScriptAttached(before, after, tok) ==
    LET n == Len(before)
        target == IF EndsWithAtom(before) THEN before[n] ELSE empty_ord
        at == IF EndsWithAtom(before) THEN n ELSE n + 1
    IN  /\ Len(after) = at
        /\ \A i \in 1..(at - 1) : after[i] = before[i]
        /\ after[at].type = "Atom"
        /\ after[at].kind = target.kind
        /\ after[at].nucleus = target.nucleus
        /\ IF tok.cat = "Superscript"
           THEN /\ after[at].subscript = target.subscript
                /\ after[at].superscript # NoField
           ELSE /\ after[at].superscript = target.superscript
                /\ after[at].subscript # NoField

C28_ScriptAttachesToLastAtom ==
    ParsedList =>
        \A k \in 1..Len(math_in.tokens) :
            (AtLoop(k) /\ IsScriptTok(math_in.tokens[k]) /\ ParsedPrefixes(k) # {})
                => ScriptAttached(PrefixParse(k - 1).v, ListAt(Min(ParsedPrefixes(k))),
                                  math_in.tokens[k])

\* ^a\displaystyle _ab^a_{}: a superscript on an empty list, a subscript
\* after a style change, and two scripts on the atom b after three elements
C28_Witness ==
    /\ ParsedList /\ Returned
    /\ Len(math_in.tokens) = 11
    /\ math_in.tokens[1] = SuperscriptTok
    /\ math_out.list =
         <<MathAtom("Ord", NoField, Symbol(97), NoField),
           StyleChange("DisplayStyle"),
           MathAtom("Ord", NoField, NoField, Symbol(97)),
           MathAtom("Bin", Symbol(98), Symbol(97), MathListField(<<>>))>>

(***************************************************************************)
(* C29: parse_math_list stops at the first EndGroup token, MathShift token *)
(* or end of input at its own nesting level and does not read it: the next *)
(* token lexed after it returns is that token.  The braces read before it  *)
(* are balanced, and no EndGroup or MathShift outside them was passed.     *)
(***************************************************************************)
\* the groups open after the first k tokens of the input
GroupDepth(k) ==
    Cardinality({i \in 1..k : math_in.tokens[i].cat = "BeginGroup"})
        - Cardinality({i \in 1..k : math_in.tokens[i].cat = "EndGroup"})

C29_ListStopsBeforeTerminator ==
    (ParsedList /\ Returned) =>
        LET p == math_out.parser
            next == lex_expanded_token(p).v
        IN  /\ p.pos \in 1..(Len(math_in.tokens) + 1)
            /\ next = IF p.pos <= Len(math_in.tokens)
                      THEN math_in.tokens[p.pos] ELSE NoToken
            /\ next.cat \in {"EndGroup", "MathShift", "None"}
            /\ GroupDepth(p.pos - 1) = 0
            /\ \A k \in 1..(p.pos - 1) :
                 /\ GroupDepth(k) >= 0
                 /\ GroupDepth(k - 1) = 0 =>
                      math_in.tokens[k].cat \notin {"EndGroup", "MathShift"}

\* a^{a}_{a}$a: the braces of the scripts are read, the list stops at the $
C29_Witness ==
    /\ ParsedList /\ Returned
    /\ Len(math_in.tokens) = 11
    /\ math_out.parser.pos = 10
    /\ lex_expanded_token(math_out.parser).v = MathShiftTok
    /\ Len(math_out.list) = 1
    /\ \E k \in 1..9 : math_in.tokens[k] = EndGroupTok

(***************************************************************************)
(* C30: parse_math_group fails with "Invalid start of math group" when the *)
(* next token is not a BeginGroup, and with "Math group didn't end with an *)
(* EndGroup" when the list parsed after the BeginGroup is followed by      *)
(* something else, the end of the input included; it returns a list, the   *)
(* one parsed between the braces, only when both braces are there.         *)
(***************************************************************************)
\* the parse of the list that follows the first token of the input
InnerList ==
    parse_math_list(NewParser(SubSeq(math_in.tokens, 2, Len(math_in.tokens)),
                              math_in.scopes))

C30_GroupNeedsBothBraces ==
    ParsedGroup =>
        LET T == math_in.tokens
            opened == T # <<>> /\ T[1].cat = "BeginGroup"
            \* the place in T of the token the inner list stopped at
            stop == InnerList.p.pos + 1
            closed == stop <= Len(T) /\ T[stop].cat = "EndGroup"
        IN  /\ ~opened => math_out.panic = "Invalid start of math group"
            /\ (opened /\ InnerList.p.panic # "") =>
                   math_out.panic = InnerList.p.panic
            /\ (opened /\ InnerList.p.panic = "" /\ ~closed) =>
                   math_out.panic = "Math group didn't end with an EndGroup"
            /\ (opened /\ InnerList.p.panic = "" /\ closed) =>
                   /\ Returned
                   /\ math_out.list = InnerList.v
                   /\ math_out.parser.pos = stop + 1
            /\ Returned => (opened /\ closed /\ InnerList.p.panic = "")

\* {a^{..}$: the list of the group ends at a MathShift
C30_Witness ==
    /\ ParsedGroup
    /\ Len(math_in.tokens) = 7
    /\ math_in.tokens[1] = BeginGroupTok
    /\ math_in.tokens[7] = MathShiftTok
    /\ InnerList.p.panic = ""
    /\ InnerList.p.pos = 6
    /\ math_out.panic = "Math group didn't end with an EndGroup"

(***************************************************************************)
(* The recognizers of the math-list parser as calls.  Each takes the       *)
(* parser by &mut self, so a call returns the parser after it as p and the *)
(* answer as v.  peek_expanded_token leaves the token where it is; there   *)
(* are no renamed tokens, so replace_renamed_token gives its argument      *)
(* back, and no token is defined by \mathchardef.                          *)
(***************************************************************************)
Recognizers ==
    {"is_character_head", "is_math_character_head", "is_math_symbol_head",
     "is_math_superscript_head", "is_math_subscript_head", "is_style_change_head"}

\* Parser::peek_expanded_token as a call
peek_expanded_token_call(p) == [p |-> p, v |-> peek_expanded_token(p)]

\* the recognizers, those of the scripts reading their token with
\* lex_expanded_token
is_head_lexing_scripts(name, p) ==
    LET peeked == peek_expanded_token_call(p)
        lexed == lex_expanded_token(p)
    IN  CASE name = "is_math_superscript_head" ->
               [p |-> lexed.p, v |-> lexed.v.cat = "Superscript"]
          [] name = "is_math_subscript_head" ->
               [p |-> lexed.p, v |-> lexed.v.cat = "Subscript"]
          [] OTHER -> [p |-> peeked.p, v |-> FALSE]

\* Parser::is_character_head, is_math_character_head, is_math_symbol_head,
\* is_math_superscript_head, is_math_subscript_head, is_style_change_head
is_head(name, p) ==
    LET peeked == peek_expanded_token_call(p)
        character == [p |-> peeked.p, v |-> peeked.v.cat \in {"Letter", "Other"}]
        math_character == [p |-> peeked.p, v |-> FALSE]
    IN  CASE name = "is_character_head" -> character
          [] name = "is_math_character_head" -> math_character
          [] name = "is_math_symbol_head" ->
               IF character.v THEN character
               ELSE LET second == peek_expanded_token_call(character.p)
                    IN  [p |-> second.p, v |-> FALSE]
          [] name = "is_math_superscript_head" ->
               [p |-> peeked.p, v |-> peeked.v.cat = "Superscript"]
          [] name = "is_math_subscript_head" ->
               [p |-> peeked.p, v |-> peeked.v.cat = "Subscript"]
          [] name = "is_style_change_head" ->
               [p |-> peeked.p,
                v |-> /\ peeked.v.cat = "Primitive"
                      /\ peeked.v.name \in {"displaystyle", "textstyle",
                                            "scriptstyle", "scriptscriptstyle"}]

\* the answer the loop of parse_math_list takes for the recognizer
AnswerOf(name, p) ==
    CASE name = "is_character_head" -> is_character_head(p)
      [] name = "is_math_character_head" -> is_math_character_head(p)
      [] name = "is_math_symbol_head" -> is_math_symbol_head(p)
      [] name = "is_math_superscript_head" -> is_math_superscript_head(p)
      [] name = "is_math_subscript_head" -> is_math_subscript_head(p)
      [] name = "is_style_change_head" -> is_style_change_head(p)

\* the parser of the call when its loop is before token k
ParserAt(k) == [PrefixParse(k - 1).p EXCEPT !.tokens = math_in.tokens]
\* the places where the loop of the call calls the recognizers: before a
\* token, and before the end of the input when the list was read to it
LoopPlaces ==
    {k \in 1..(Len(math_in.tokens) + 1) :
        PrefixParse(k - 1).p.panic = "" /\ PrefixParse(k - 1).p.pos = k}

Enter == [ev |-> "Enter"]
Leave == [ev |-> "Leave"]
CharEvent(c) == [ev |-> "Char", c |-> c]
MoveEvent(dir) == [ev |-> "Move", dir |-> dir]

RECURSIVE Traversal(_)
RECURSIVE TraversalOfList(_, _, _)
TraversalOfList(list, i, variant) ==
    IF i > Len(list)
    THEN <<>>
    ELSE LET elem == list[i]
             dir == IF variant = "HorizontalBox" THEN "Right" ELSE "Down"
             visit == CASE elem.type = "Char" -> <<CharEvent(elem.chr % 256)>>
                        [] elem.type \in {"HSkip", "VSkip"} -> <<MoveEvent(dir)>>
                        [] elem.type = "Box" ->
                             Traversal(elem.box) \o <<MoveEvent(dir)>>
         IN  visit \o TraversalOfList(list, i + 1, variant)
Traversal(tex_box) ==
    <<Enter>> \o TraversalOfList(tex_box.list, 1, tex_box.variant) \o <<Leave>>

EventOf(command) ==
    CASE command.op = "Push" -> Enter
      [] command.op = "Pop" -> Leave
      [] command.op \in {"SetCharN", "Set1"} -> CharEvent(command.c)
      [] command.op = "Right4" -> MoveEvent("Right")
      [] command.op = "Down4" -> MoveEvent("Down")
      [] OTHER -> [ev |-> command.op]
EventsIn(seq) ==
    LET walk == SelectSeq(seq, LAMBDA c : c.op \notin {"FntDef4", "Fnt4"})
    IN  [i \in 1..Len(walk) |-> EventOf(walk[i])]

\* seq begins with the sequence start
IsPrefix(start, seq) ==
    Len(start) <= Len(seq) /\ SubSeq(seq, 1, Len(start)) = start

(***************************************************************************)
(* C32: a call of the writer only appends to the command buffer: the       *)
(* buffer before the call is a prefix of the buffer after it, also when    *)
(* the call fails.  The commands a completed call appends for a box are    *)
(* those of the walk of the box depth first and from left to right:        *)
(* add_box appends the walk, add_page the walk between Bop and Eop, and a  *)
(* list element that is a box the walk and then the move over the box.     *)
(***************************************************************************)
C32_AppendOnlyInTraversalOrder ==
    /\ IsPrefix(last_op.pre.commands, commands)
    /\ Completed("add_box") => EventsIn(Appended) = Traversal(last_op.arg)
    /\ Completed("add_page") =>
           EventsIn(Appended) =
               <<[ev |-> "Bop"]>> \o Traversal(last_op.arg[1]) \o <<[ev |-> "Eop"]>>
    /\ (Completed("add_horizontal_list_elem") /\ last_op.arg.type = "Box") =>
           EventsIn(Appended) = Traversal(last_op.arg.box) \o <<MoveEvent("Right")>>
    /\ (Completed("add_vertical_list_elem") /\ last_op.arg.type = "Box") =>
           EventsIn(Appended) = Traversal(last_op.arg.box) \o <<MoveEvent("Down")>>

\* a page of three elements, two of them boxes with boxes inside, added to
\* a buffer that holds commands already
C32_Witness ==
    /\ Completed("add_page")
    /\ last_op.arg[1] = PageMixed
    /\ last_op.pre.commands # <<>>
    /\ EventsIn(Appended) =
          <<[ev |-> "Bop"], Enter,
            Enter, CharEvent(97), MoveEvent("Right"), CharEvent(97),
            Enter, CharEvent(103), Leave, MoveEvent("Right"), CharEvent(200),
            Leave, MoveEvent("Down"),
            MoveEvent("Down"),
            Enter, Enter, CharEvent(103), Leave, MoveEvent("Down"),
            MoveEvent("Down"), Leave, MoveEvent("Down"),
            Leave, [ev |-> "Eop"]>>

(***************************************************************************)
(* The output of the translator read place by place.  The style at place i *)
(* of a list is that of the last StyleChange before i, or the start style  *)
(* when there is none; the atom before place i is the last atom before i,  *)
(* whatever StyleChanges stand between.                                    *)
(***************************************************************************)
StyleChangesBefore(list, i) == {j \in 1..(i - 1) : list[j].type = "StyleChange"}
AtomsBefore(list, i) == {j \in 1..(i - 1) : list[j].type = "Atom"}
StyleAt(list, i, start_style) ==
    IF StyleChangesBefore(list, i) = {}
    THEN start_style
    ELSE list[Max(StyleChangesBefore(list, i))].style
\* the skip looked up for the atom at place i and the atom before it
SkipAt(list, i, start_style) ==
    IF AtomsBefore(list, i) = {}
    THEN NoGlue
    ELSE get_skip_for_atom_pair(list[Max(AtomsBefore(list, i))].kind, list[i].kind,
                                StyleAt(list, i, start_style))
\* what the element at place i gives to the output: nothing for a
\* StyleChange; for an atom its skip, if any, and the box of its symbol
EmittedAt(list, i, start_style) ==
    IF list[i].type = "StyleChange"
    THEN <<>>
    ELSE (IF SkipAt(list, i, start_style).some
          THEN <<HSkip(SkipAt(list, i, start_style).glue)>>
          ELSE <<>>) \o
         (IF list[i].nucleus.field = "Symbol"
          THEN <<BoxElem(NaturalHBox(<<Char(list[i].nucleus.position_number,
                                            get_current_font)>>))>>
          ELSE <<>>)
RECURSIVE EmittedUpTo(_, _, _)
EmittedUpTo(list, n, start_style) ==
    IF n = 0 THEN <<>>
    ELSE EmittedUpTo(list, n - 1, start_style) \o EmittedAt(list, n, start_style)

\* list holds StyleChanges and atoms without scripts whose nucleus is a
\* symbol or absent
IsSimpleList(list) ==
    \A i \in 1..Len(list) :
        \/ list[i].type = "StyleChange"
        \/ /\ list[i].type = "Atom"
           /\ list[i].nucleus.field \in {"Symbol", "None"}
           /\ list[i].superscript = NoField
           /\ list[i].subscript = NoField

(***************************************************************************)
(* C33: in the second pass a StyleChange emits nothing and does not reset  *)
(* the kind of the previous atom: the skip before an atom is looked up for *)
(* the kind of the last atom before it and its own kind, StyleChanges      *)
(* between them or not, with the style of the last StyleChange before the  *)
(* atom, and with the start style when no StyleChange comes before it,     *)
(* whatever StyleChanges come after it.  The call fails exactly when one   *)
(* of these lookups fails.                                                 *)
(***************************************************************************)
C33_StyleChangeKeepsLastAtomKind ==
    (Converted /\ IsSimpleList(math_in.list)) =>
        LET list == math_in.list
            failing == {i \in 1..Len(list) :
                           /\ list[i].type = "Atom"
                           /\ SkipAt(list, i, math_in.start_style).panic # ""}
        IN  /\ Returned <=> failing = {}
            /\ Returned =>
                   math_out.list = EmittedUpTo(list, Len(list), math_in.start_style)

\* o \textstyle r translated from ScriptStyle on: the thick skip of Ord-Rel
\* stands between the two boxes, as the style of the StyleChange has it
C33_Witness ==
    /\ Converted /\ Returned
    /\ math_in.list = <<PlainAtom("Ord"), StyleChange("TextStyle"), PlainAtom("Rel")>>
    /\ math_in.start_style = "ScriptStyle"
    /\ Len(math_out.list) = 3
    /\ math_out.list[2] = HSkip(thickskip)

(***************************************************************************)
(* C34: an atom whose nucleus is a math list is translated by a call of    *)
(* the translator on that list with the style at the atom's place in the   *)
(* outer list, and stands in the outer output as one box, the natural box  *)
(* of the list that call returned.  Nothing else of the nested list        *)
(* reaches the outer list: the call returns what it returns on the list    *)
(* in which each such nucleus is that box already, so the style and the    *)
(* kind of the previous atom used for the later atoms are those of the     *)
(* outer list alone.  When a nested translation fails, the call fails.     *)
(***************************************************************************)
\* the places of list whose atom has a math list as nucleus
NestedPlaces(list) ==
    {i \in 1..Len(list) : list[i].type = "Atom" /\ list[i].nucleus.field = "MathList"}
\* the translation of the nested list at place i, with the style there
NestedAt(list, i, start_style) ==
    convert_math_list_to_horizontal_list(list[i].nucleus.list,
                                         StyleAt(list, i, start_style))
\* list with the nucleus at each nested place replaced by the box of its
\* translation
Boxed(list, start_style) ==
    [i \in 1..Len(list) |->
        IF i \in NestedPlaces(list)
        THEN [list[i] EXCEPT !.nucleus =
                 TeXBoxField(NaturalHBox(NestedAt(list, i, start_style).list))]
        ELSE list[i]]
BoxesOf(list) == {i \in 1..Len(list) : list[i].type = "Box"}

C34_NestedListIsOneBox ==
    (Converted /\ NestedPlaces(math_in.list) # {}) =>
        LET list == math_in.list
            start_style == math_in.start_style
            failing == {i \in NestedPlaces(list) :
                           NestedAt(list, i, start_style).panic # ""}
        IN  /\ failing # {} => ~Returned
            /\ failing = {} =>
                   math_out = convert_math_list_to_horizontal_list(
                                  Boxed(list, start_style), start_style)
            /\ Returned =>
                   /\ \A i \in NestedPlaces(list) :
                          \E k \in BoxesOf(math_out.list) :
                              math_out.list[k].box =
                                  NaturalHBox(NestedAt(list, i, start_style).list)
                   /\ Cardinality(BoxesOf(math_out.list)) =
                          Cardinality({i \in 1..Len(list) :
                                          /\ list[i].type = "Atom"
                                          /\ list[i].nucleus.field # "None"})

\* {\scriptstyle o r} r from TextStyle on: no skip inside the box, as the
\* nested list sets ScriptStyle for itself, and the thick skip of Ord-Rel
\* after it, as the outer list is still in TextStyle after an Ord
C34_Witness ==
    /\ Converted /\ Returned
    /\ math_in.list = <<MathAtom("Ord", GroupScript, NoField, NoField), PlainAtom("Rel")>>
    /\ math_in.start_style = "TextStyle"
    /\ Len(math_out.list) = 3
    /\ Len(math_out.list[1].box.list) = 2
    /\ math_out.list[2] = HSkip(thickskip)

\* \scriptstyle {o r} from TextStyle on: the nested list is translated in
\* ScriptStyle, the style at its atom, and has no skip
C34_NestedStyleWitness ==
    /\ Converted /\ Returned
    /\ math_in.list = <<StyleChange("ScriptStyle"),
                        MathAtom("Inner", GroupOR, NoField, NoField)>>
    /\ math_in.start_style = "TextStyle"
    /\ Len(math_out.list) = 1
    /\ Len(math_out.list[1].box.list) = 2

(***************************************************************************)
(* C35: the font in force at a place of the stream is that of the last     *)
(* Fnt4 before it, and none (-1) when a Bop came after that Fnt4 or there  *)
(* is no Fnt4; Push and Pop do not touch it.  curr_font_num is the font in *)
(* force at the end of the stream, and for every character command the     *)
(* font in force before it is the number registered for the character's    *)
(* font, a FntDef4 of that font with that number stands before it, and     *)
(* when the character is on a page (after a Bop with no Eop between) the   *)
(* Fnt4 that selected the font lies after that Bop.  Between two           *)
(* successive characters of one call with no Bop between them there is no  *)
(* Fnt4 when their fonts are the same, however many boxes are left and     *)
(* entered between them, and one Fnt4 when they differ.                    *)
(***************************************************************************)
RECURSIVE FontInForce(_)
\* the font in force after the first n commands
FontInForce(n) ==
    IF n = 0 THEN -1
    ELSE CASE OpAt(n) = "Fnt4" -> commands[n].k
           [] OpAt(n) = "Bop" -> -1
           [] OTHER -> FontInForce(n - 1)

\* the character command at place at stands on a page
OnPage(at) ==
    \E b \in IdxOf("Bop") : b < at /\ NoneBetween("Eop", b, at)

C35_CharacterInCurrentFont ==
    /\ curr_font_num = FontInForce(Len(commands))
    /\ \A e \in CharLog :
         /\ e.font \in DOMAIN font_nums
         /\ OpAt(e.at) \in {"SetCharN", "Set1"}
         /\ FontInForce(e.at - 1) = font_nums[e.font]
         /\ \E i \in IdxOf("FntDef4") :
              /\ i < e.at
              /\ commands[i].font_name = e.font
              /\ commands[i].font_num = FontInForce(e.at - 1)
         /\ OnPage(e.at) =>
              \E k \in Fnt4Between(PrevBop(e.at), e.at) :
                  /\ commands[k].k = font_nums[e.font]
                  /\ NoneBetween("Fnt4", k, e.at)
    /\ \A n \in 1..(Len(char_log) - 1) :
         LET e1 == char_log[n]
             e2 == char_log[n + 1]
         IN  (e1.at > Len(last_op.pre.commands) /\ NoneBetween("Bop", e1.at, e2.at)) =>
                 CountBetween("Fnt4", e1.at, e2.at) =
                     IF e1.font = e2.font THEN 0 ELSE 1

\* the page with g in one box and a in the next, both in cmr10, added after
\* a page that ended in cmr7: one Fnt4 on the page, before g, and none
\* between the Pop after g and the Push before a
C35_Witness ==
    /\ Completed("add_page")
    /\ last_op.arg[1] = PageGA
    /\ last_op.pre.curr_font_num = 1
    /\ font_nums["cmr10"] = 0
    /\ Len(char_log) >= 2
    /\ LET g == char_log[Len(char_log) - 1].at
           a == char_log[Len(char_log)].at
       IN  /\ g > Len(last_op.pre.commands)
           /\ CountBetween("Pop", g, a) = 1
           /\ CountBetween("Push", g, a) = 1
           /\ CountBetween("Fnt4", g, a) = 0
           /\ Cardinality(Fnt4Between(PrevBop(g), g)) = 1
    /\ curr_font_num = 0

(***************************************************************************)
(* C36: Push and Pop are well nested.  In the commands a completed add_box *)
(* or add_page appended, no prefix has more Pop than Push; the segment of  *)
(* a box (what add_box appended, what add_page appended between Bop and    *)
(* Eop, what a box element appended before its move) starts with Push,     *)
(* ends with Pop, has as many Push as Pop and is open at every place       *)
(* between its ends; and the greatest number of boxes open at once in it   *)
(* is the nesting depth of the box, 1 for a box without boxes inside.      *)
(***************************************************************************)
\* the number of Push less the number of Pop among the first n of seq
OpenAfterPrefix(seq, n) ==
    Cardinality({k \in 1..n : seq[k].op = "Push"})
        - Cardinality({k \in 1..n : seq[k].op = "Pop"})

RECURSIVE NestingDepth(_)
RECURSIVE NestingDepthOfList(_, _)
\* the greatest nesting depth of the boxes of list from element i on
NestingDepthOfList(list, i) ==
    IF i > Len(list) THEN 0
    ELSE LET here == IF list[i].type = "Box" THEN NestingDepth(list[i].box) ELSE 0
             rest == NestingDepthOfList(list, i + 1)
         IN  IF here > rest THEN here ELSE rest
NestingDepth(tex_box) == 1 + NestingDepthOfList(tex_box.list, 1)

\* seg is the segment of tex_box
IsBoxSegment(seg, tex_box) ==
    /\ Len(seg) >= 2
    /\ seg[1].op = "Push"
    /\ seg[Len(seg)].op = "Pop"
    /\ OpenAfterPrefix(seg, Len(seg)) = 0
    /\ \A n \in 1..(Len(seg) - 1) : OpenAfterPrefix(seg, n) >= 1
    /\ \A n \in 1..Len(seg) : OpenAfterPrefix(seg, n) <= NestingDepth(tex_box)
    /\ \E n \in 1..Len(seg) : OpenAfterPrefix(seg, n) = NestingDepth(tex_box)

C36_PushPopWellNested ==
    /\ (Completed("add_box") \/ Completed("add_page")) =>
           \A n \in 0..Len(Appended) : OpenAfterPrefix(Appended, n) >= 0
    /\ Completed("add_box") => IsBoxSegment(Appended, last_op.arg)
    /\ Completed("add_page") =>
           /\ Len(Appended) >= 4
           /\ IsBoxSegment(SubSeq(Appended, 2, Len(Appended) - 1), last_op.arg[1])
    /\ ((Completed("add_horizontal_list_elem") \/ Completed("add_vertical_list_elem"))
          /\ last_op.arg.type = "Box") =>
           IsBoxSegment(SubSeq(Appended, 1, Len(Appended) - 1), last_op.arg.box)

\* a page three boxes deep, and after it a box two boxes deep
C36_Witness ==
    /\ Completed("add_box")
    /\ last_op.arg = BoxV
    /\ NestingDepth(BoxV) = 2
    /\ last_op.prev_name = "add_page"
    /\ last_op.prev_arg[1] = PageMixed
    /\ NestingDepth(PageMixed) = 3
    /\ \E n \in 1..Len(last_op.pre.commands) :
           OpenAfterPrefix(last_op.pre.commands, n) = 3
    /\ OpenAfterPrefix(Appended, 2) = 2

(***************************************************************************)
(* C37: after every call that completes, font_nums maps the font names     *)
(* used so far (those of the characters written, that of a switch_to_font, *)
(* those of the FntDef4 commands) one to one onto 0 .. next_font_num - 1,  *)
(* next_font_num is the number of registered fonts, every registration the *)
(* writer had before the call is still there with its number, add_page     *)
(* included, and curr_font_num is -1 or a registered number.               *)
(***************************************************************************)
RegisteredNumbers == {font_nums[font] : font \in DOMAIN font_nums}

C37_FontRegistryGrowsOnly ==
    ~panicked =>
        /\ RegisteredNumbers = 0..(next_font_num - 1)
        /\ Cardinality(DOMAIN font_nums) = next_font_num
        /\ \A f \in DOMAIN font_nums : \A g \in DOMAIN font_nums :
               font_nums[f] = font_nums[g] => f = g
        /\ DOMAIN font_nums = {commands[i].font_name : i \in IdxOf("FntDef4")}
        /\ \A e \in CharLog : e.font \in DOMAIN font_nums
        /\ last_op.name = "switch_to_font" => last_op.arg \in DOMAIN font_nums
        /\ \A font \in DOMAIN last_op.pre.font_nums :
               /\ font \in DOMAIN font_nums
               /\ font_nums[font] = last_op.pre.font_nums[font]
        /\ next_font_num >= last_op.pre.next_font_num
        /\ curr_font_num = -1 \/ curr_font_num \in RegisteredNumbers

\* a page that uses cmr7 only, added to a writer that has cmr10 as 0 and
\* cmr7 as 1 and cmr10 selected: both registrations stay, cmr7 is selected
C37_Witness ==
    /\ Completed("add_page")
    /\ last_op.arg[1] = PageSeven
    /\ last_op.pre.font_nums = font_nums
    /\ DOMAIN font_nums = {"cmr10", "cmr7"}
    /\ font_nums["cmr10"] = 0
    /\ font_nums["cmr7"] = 1
    /\ next_font_num = 2
    /\ last_op.pre.curr_font_num = 0
    /\ curr_font_num = 1

(***************************************************************************)
(* C38: when every atom of the list has a nucleus and the translation      *)
(* returns, the output holds one Box per atom, in the order of the atoms   *)
(* and each the box of its atom; it does not start and does not end with   *)
(* an HSkip, and no two HSkips are adjacent.  The translation of such a    *)
(* list of script-free symbol atoms returns whenever no pair of successive *)
(* atoms is without entry in the table.  A list without atoms, empty or of *)
(* StyleChanges only, gives the empty horizontal list.                     *)
(***************************************************************************)
\* the places of the atoms of list, in order
AtomPlaceSeq(list) ==
    LET places == SelectSeq([i \in 1..Len(list) |-> i],
                            LAMBDA i : list[i].type = "Atom")
    IN  places
\* the box the translator makes of the nucleus of the atom at place i
BoxOfAtom(list, i, start_style) ==
    CASE list[i].nucleus.field = "Symbol" ->
           NaturalHBox(<<Char(list[i].nucleus.position_number, get_current_font)>>)
      [] list[i].nucleus.field = "TeXBox" -> list[i].nucleus.box
      [] list[i].nucleus.field = "MathList" ->
           NaturalHBox(NestedAt(list, i, start_style).list)
\* the boxes of the horizontal list hlist, in order
BoxSeq(hlist) ==
    LET boxes == SelectSeq(hlist, LAMBDA elem : elem.type = "Box")
    IN  [k \in 1..Len(boxes) |-> boxes[k].box]
\* every element is an atom or a StyleChange, and every atom has a nucleus
AllAtomsHaveNucleus(list) ==
    \A i \in 1..Len(list) :
        /\ list[i].type \in {"Atom", "StyleChange"}
        /\ list[i].type = "Atom" => list[i].nucleus.field # "None"
\* no two successive atoms of list are a pair without entry in the table
NoForbiddenPair(list) ==
    \A i \in 1..Len(list) :
        (list[i].type = "Atom" /\ AtomsBefore(list, i) # {}) =>
            <<list[Max(AtomsBefore(list, i))].kind, list[i].kind>>
                \in DOMAIN INTER_ATOM_SPACING

C38_OneBoxPerAtomSkipsBetween ==
    Converted =>
        LET list == math_in.list
            out == math_out.list
            places == AtomPlaceSeq(list)
        IN  /\ (AllAtomsHaveNucleus(list) /\ Returned) =>
                   /\ BoxSeq(out) =
                          [k \in 1..Len(places) |->
                              BoxOfAtom(list, places[k], math_in.start_style)]
                   /\ out # <<>> =>
                          out[1].type = "Box" /\ out[Len(out)].type = "Box"
                   /\ \A k \in 1..(Len(out) - 1) :
                          ~(out[k].type = "HSkip" /\ out[k + 1].type = "HSkip")
            /\ (AllAtomsHaveNucleus(list) /\ IsSimpleList(list) /\ NoForbiddenPair(list))
                   => Returned
            /\ (\A i \in 1..Len(list) : list[i].type = "StyleChange") =>
                   Returned /\ out = <<>>

\* the first list of tests::it_adds_space_between_atoms_of_different_types_
\* in_math_lists: fourteen atoms give fourteen boxes with seven skips
\* between them
C38_Witness ==
    /\ Converted /\ Returned
    /\ math_in.list = TestLists[1]
    /\ math_in.start_style = "TextStyle"
    /\ Len(BoxSeq(math_out.list)) = 14
    /\ Len(math_out.list) = 21
    /\ math_out.list[Len(math_out.list) - 1].type = "HSkip"

\* a list of StyleChanges only, translated to the empty list
C38_NoAtomsWitness ==
    /\ Converted /\ Returned
    /\ Len(math_in.list) = 3
    /\ \A i \in 1..3 : math_in.list[i].type = "StyleChange"
    /\ math_out.list = <<>>

(***************************************************************************)
(* The parser and the translator step by step.  A run of parse_math_list   *)
(* is the record of the parser p, the list of the activation of            *)
(* parse_math_list that runs, the activations that wait, outermost first,  *)
(* and the status of the call.  An activation waits while the group of a   *)
(* script field is parsed: it keeps its list without the atom the script   *)
(* goes to, that atom, and the kind of the script.  A step is one          *)
(* iteration of the loop of the activation that runs.  The iteration that  *)
(* reads the BeginGroup of a script field ends where the loop of the       *)
(* nested activation begins, and the iteration in which the nested loop    *)
(* breaks goes on through the rest of parse_math_group and of the script   *)
(* of the activation that waited for it.                                   *)
(***************************************************************************)
ParseRun(p, list, waiting, status) ==
    [call |-> "parse_math_list", p |-> p, list |-> list, waiting |-> waiting,
     status |-> status]
Waiting(list, atom, is_superscript) ==
    [list |-> list, atom |-> atom, is_superscript |-> is_superscript]
\* the run stopped by a panic of the parser
PanickedRun(r, p) == [r EXCEPT !.p = p, !.status = "panicked"]
\* MathAtom::with_superscript and MathAtom::with_subscript
with_script(atom, is_superscript, field) ==
    IF is_superscript
    THEN [atom EXCEPT !.superscript = field]
    ELSE [atom EXCEPT !.subscript = field]

\* the branches of the loop of Parser::parse_math_list: a math symbol
symbol_iteration(r) ==
    LET math_code == parse_math_symbol(r.p)
    IN  IF math_code.p.panic # ""
        THEN PanickedRun(r, math_code.p)
        ELSE [r EXCEPT !.p = math_code.p,
                       !.list = Append(r.list, from_math_code(math_code.v))]

\* a superscript or a subscript, up to the end of its field when the field
\* is a symbol and up to the BeginGroup of its field when it is a group
script_iteration(r) ==
    LET current_list == r.list
        is_superscript == is_math_superscript_head(r.p)
        n == Len(current_list)
        popped_atom == n > 0 /\ current_list[n].type = "Atom"
        last_atom == IF popped_atom THEN current_list[n] ELSE empty_ord
        list1 == IF popped_atom THEN SubSeq(current_list, 1, n - 1) ELSE current_list
        p1 == lex_expanded_token(r.p).p
        p2 == parse_filler_expanded(p1)
        math_code == parse_math_symbol(p2)
        begin_group == lex_expanded_token(p2)
    IN  IF is_superscript /\ has_superscript(last_atom)
        THEN PanickedRun(r, Panic(p1, "Double superscript"))
        ELSE IF ~is_superscript /\ has_subscript(last_atom)
        THEN PanickedRun(r, Panic(p1, "Double subscript"))
        ELSE IF is_math_symbol_head(p2)
        THEN IF math_code.p.panic # ""
             THEN PanickedRun(r, math_code.p)
             ELSE [r EXCEPT !.p = math_code.p,
                            !.list = Append(list1,
                                with_script(last_atom, is_superscript,
                                            symbol_from_math_code(math_code.v)))]
        ELSE IF begin_group.v.cat # "BeginGroup"
        THEN PanickedRun(r, Panic(begin_group.p, "Invalid start of math group"))
        ELSE [r EXCEPT !.p = push_state(begin_group.p),
                       !.list = <<>>,
                       !.waiting = Append(@, Waiting(list1, last_atom, is_superscript))]

\* an assignment
assignment_iteration(r) == [r EXCEPT !.p = parse_assignment(r.p)]

\* a style change
style_change_iteration(r) ==
    LET style_change == parse_style_change(r.p)
    IN  IF style_change.p.panic # ""
        THEN PanickedRun(r, style_change.p)
        ELSE [r EXCEPT !.p = style_change.p,
                       !.list = Append(r.list, StyleChange(style_change.v))]

\* the break of the loop: the call returns when no activation waits, else
\* parse_math_group pops the scope and reads the EndGroup, and the script
\* is attached in the activation that waited
break_iteration(r) ==
    IF r.waiting = <<>>
    THEN [r EXCEPT !.status = "returned"]
    ELSE LET outer == r.waiting[Len(r.waiting)]
             end_group == lex_expanded_token(pop_state(r.p))
         IN  IF end_group.v.cat # "EndGroup"
             THEN PanickedRun(r, Panic(end_group.p,
                                       "Math group didn't end with an EndGroup"))
             ELSE [r EXCEPT !.p = end_group.p,
                            !.list = Append(outer.list,
                                with_script(outer.atom, outer.is_superscript,
                                            MathListField(r.list))),
                            !.waiting = SubSeq(@, 1, Len(@) - 1)]

\* an iteration that does not read the assignment it found
parse_math_list_iteration_keeping_assignment(r) ==
    IF is_math_symbol_head(r.p)
    THEN symbol_iteration(r)
    ELSE IF is_math_superscript_head(r.p) \/ is_math_subscript_head(r.p)
    THEN script_iteration(r)
    ELSE IF is_assignment_head(r.p)
    THEN r
    ELSE IF is_style_change_head(r.p)
    THEN style_change_iteration(r)
    ELSE IF peek_expanded_token(r.p).cat \in {"EndGroup", "MathShift", "None"}
    THEN break_iteration(r)
    ELSE PanickedRun(r, Panic(r.p, "unimplemented"))

\* one iteration of the loop of Parser::parse_math_list
parse_math_list_iteration(r) ==
    IF is_math_symbol_head(r.p)
    THEN symbol_iteration(r)
    ELSE IF is_math_superscript_head(r.p) \/ is_math_subscript_head(r.p)
    THEN script_iteration(r)
    ELSE IF is_assignment_head(r.p)
    THEN assignment_iteration(r)
    ELSE IF is_style_change_head(r.p)
    THEN style_change_iteration(r)
    ELSE IF peek_expanded_token(r.p).cat \in {"EndGroup", "MathShift", "None"}
    THEN break_iteration(r)
    ELSE PanickedRun(r, Panic(r.p, "unimplemented"))

(***************************************************************************)
(* A run of convert_math_list_to_horizontal_list is the stack of its       *)
(* activations, outermost first: each has its list and start style, the    *)
(* loop it is in (pass 1 or 2), the place i of the element it is at, and   *)
(* its locals.  An activation waits at an atom of its first loop while the *)
(* activation above it translates the math list of the nucleus.  A step is *)
(* one iteration of a loop of the activation on top, or the end of a loop; *)
(* calls counts the activations begun.                                     *)
(***************************************************************************)
Activation(list, start_style) ==
    [list |-> list, start_style |-> start_style, pass |-> 1, i |-> 1,
     current_style |-> start_style, elems_after_first_pass |-> <<>>,
     maybe_last_atom_kind |-> <<>>, resulting_horizontal_list |-> <<>>]
TranslateRun(list, start_style) ==
    [call |-> "convert_math_list_to_horizontal_list",
     stack |-> <<Activation(list, start_style)>>, status |-> "running",
     panic |-> "", calls |-> 1, result |-> <<>>]
PanickedTranslation(r, message) == [r EXCEPT !.status = "panicked", !.panic = message]
Top(r) == r.stack[Len(r.stack)]
WithTop(r, activation) == [r EXCEPT !.stack[Len(r.stack)] = activation]

\* the end of the first loop's iteration for the atom at the place of
\* activation a, its nucleus translated
first_pass_atom_end(r, a, atom) ==
    IF has_subscript(atom) \/ has_superscript(atom)
    THEN PanickedTranslation(r, "Unimplemented superscript/subscript")
    ELSE [r EXCEPT !.stack = Append(SubSeq(r.stack, 1, Len(r.stack) - 1),
                       [a EXCEPT !.elems_after_first_pass = Append(@, atom),
                                 !.i = @ + 1])]

\* one iteration of the first loop of the activation on top, up to the
\* recursive call when the nucleus is a math list; or the end of the loop
first_pass_step(r) ==
    LET a == Top(r)
        elem == a.list[a.i]
    IN  IF a.i > Len(a.list)
        THEN WithTop(r, [a EXCEPT !.pass = 2, !.i = 1, !.current_style = a.start_style])
        ELSE CASE elem.type = "Atom" ->
                    CASE elem.nucleus.field = "Symbol" ->
                           first_pass_atom_end(r, a,
                               [elem EXCEPT !.nucleus = TeXBoxField(NaturalHBox(
                                   <<Char(elem.nucleus.position_number,
                                          get_current_font)>>))])
                      [] elem.nucleus.field = "MathList" ->
                           [r EXCEPT !.stack = Append(@, Activation(elem.nucleus.list,
                                                                    a.current_style)),
                                     !.calls = @ + 1]
                      [] OTHER -> first_pass_atom_end(r, a, elem)
               [] elem.type = "StyleChange" ->
                    WithTop(r, [a EXCEPT !.current_style = elem.style,
                                         !.elems_after_first_pass = Append(@, elem),
                                         !.i = @ + 1])
               [] OTHER -> PanickedTranslation(r, "unimplemented math list elem")

\* one iteration of the second loop of the activation on top; or the end
\* of the loop: the activation returns its list, to the caller of the run
\* or to the activation below, which goes on with its atom
second_pass_step(r) ==
    LET a == Top(r)
        elem == a.elems_after_first_pass[a.i]
        skip == IF a.maybe_last_atom_kind # <<>>
                THEN get_skip_for_atom_pair(a.maybe_last_atom_kind[1], elem.kind,
                                            a.current_style)
                ELSE NoGlue
        with_skip == IF skip.some
                     THEN Append(a.resulting_horizontal_list, HSkip(skip.glue))
                     ELSE a.resulting_horizontal_list
    IN  IF a.i > Len(a.elems_after_first_pass)
        THEN IF Len(r.stack) = 1
             THEN [r EXCEPT !.status = "returned",
                            !.result = a.resulting_horizontal_list]
             ELSE LET below == r.stack[Len(r.stack) - 1]
                      popped == [r EXCEPT !.stack = SubSeq(@, 1, Len(@) - 1)]
                  IN  first_pass_atom_end(popped, below,
                          [below.list[below.i] EXCEPT !.nucleus =
                              TeXBoxField(NaturalHBox(a.resulting_horizontal_list))])
        ELSE CASE elem.type = "Atom" ->
                    IF skip.panic # ""
                    THEN PanickedTranslation(r, skip.panic)
                    ELSE IF has_subscript(elem) \/ has_superscript(elem)
                    THEN PanickedTranslation(r,
                             "Atoms should be sub/superscript free in second pass!")
                    ELSE IF elem.nucleus.field \notin {"TeXBox", "None"}
                    THEN PanickedTranslation(r,
                             "Atom nucleuses should only be boxes in second pass!")
                    ELSE WithTop(r,
                             [a EXCEPT !.resulting_horizontal_list =
                                           IF elem.nucleus.field = "TeXBox"
                                           THEN Append(with_skip, BoxElem(elem.nucleus.box))
                                           ELSE with_skip,
                                       !.maybe_last_atom_kind = <<elem.kind>>,
                                       !.i = @ + 1])
               [] elem.type = "StyleChange" ->
                    WithTop(r, [a EXCEPT !.current_style = elem.style, !.i = @ + 1])
               [] OTHER -> PanickedTranslation(r, "unimplemented math list elem")

(***************************************************************************)
(* The stepwise specification: one call of parse_math_list or of           *)
(* convert_math_list_to_horizontal_list, followed step by step.  The core  *)
(* is single-threaded and synchronous: a call that can take a step takes   *)
(* it, which is the weak fairness of the steps.                            *)
(***************************************************************************)
\* the longest input drawn from all the sequences, of tokens and of elements
MaxStepTokens == 3
MaxStepLen == 2

InitSteps ==
    /\ commands = new.commands
    /\ stack_depth = new.stack_depth
    /\ last_page_start = new.last_page_start
    /\ curr_font_num = new.curr_font_num
    /\ font_nums = new.font_nums
    /\ next_font_num = new.next_font_num
    /\ panicked = new.panicked
    /\ char_log = new.char_log
    /\ last_op = NoOp
    /\ n_ops = 0
    /\ \/ \E n \in 0..MaxStepTokens, scopes \in ScopeInputs :
            \E tokens \in SeqsOf(Tokens, n) : math_in = ParseListCall(tokens, scopes)
       \/ \E tokens \in ListSamples, scopes \in ScopeInputs :
            math_in = ParseListCall(tokens, scopes)
       \/ \E n \in 0..MaxStepLen, start_style \in MathStyles :
            \E list \in SeqsOf(PlainElems \cup RichElems, n) :
                math_in = ConvertCall(list, start_style)
       \/ \E list \in MathListSamples, start_style \in MathStyles :
            math_in = ConvertCall(list, start_style)
    /\ math_out = NoCall
    /\ pack_in = NoCall
    /\ pack_out = NoCall
    /\ run = IF math_in.call = "parse_math_list"
             THEN ParseRun(NewParser(math_in.tokens, math_in.scopes), <<>>, <<>>,
                           "running")
             ELSE TranslateRun(math_in.list, math_in.start_style)

ParseMathListIteration ==
    /\ run.call = "parse_math_list"
    /\ run.status = "running"
    /\ run' = parse_math_list_iteration(run)
    /\ UNCHANGED <<math_in, math_out, writer_vars, pack_in, pack_out>>

FirstPassStep ==
    /\ run.call = "convert_math_list_to_horizontal_list"
    /\ run.status = "running"
    /\ Top(run).pass = 1
    /\ run' = first_pass_step(run)
    /\ UNCHANGED <<math_in, math_out, writer_vars, pack_in, pack_out>>

SecondPassStep ==
    /\ run.call = "convert_math_list_to_horizontal_list"
    /\ run.status = "running"
    /\ Top(run).pass = 2
    /\ run' = second_pass_step(run)
    /\ UNCHANGED <<math_in, math_out, writer_vars, pack_in, pack_out>>

NextSteps ==
    \/ ParseMathListIteration
    \/ FirstPassStep
    \/ SecondPassStep

SpecSteps == InitSteps /\ [][NextSteps]_vars /\ WF_vars(NextSteps)

\* the run is over: the call has returned or has panicked
RunOver == run.status \in {"returned", "panicked"}
\* the tokens the parser of the run has not read
TokensLeft(r) == Len(r.p.tokens) + 1 - r.p.pos

RECURSIVE MathListNuclei(_, _)
\* the number of nuclei that are math lists in list from element i on, those
\* of the nested lists included
MathListNuclei(list, i) ==
    IF i > Len(list) THEN 0
    ELSE (IF list[i].type = "Atom" /\ list[i].nucleus.field = "MathList"
          THEN 1 + MathListNuclei(list[i].nucleus.list, 1)
          ELSE 0) + MathListNuclei(list, i + 1)

\* the run ends as the call does: with the same list and parser, or with
\* the same panic
RunAgreesWithCall ==
    /\ (run.call = "parse_math_list" /\ RunOver) =>
           LET whole == parse_math_list(NewParser(math_in.tokens, math_in.scopes))
           IN  /\ run.p = whole.p
               /\ run.status = "returned" <=> whole.p.panic = ""
               /\ run.status = "returned" => run.list = whole.v /\ run.waiting = <<>>
    /\ (run.call = "convert_math_list_to_horizontal_list" /\ RunOver) =>
           LET whole == convert_math_list_to_horizontal_list(math_in.list,
                                                             math_in.start_style)
           IN  /\ run.panic = whole.panic
               /\ run.status = "returned" <=> whole.panic = ""
               /\ run.status = "returned" => run.result = whole.list

\* a step of the parser reads a token unless it ends the run, and a step
\* of the translator begins at most one activation
StepMakesProgress ==
    /\ run.call = "parse_math_list" =>
           \/ TokensLeft(run') < TokensLeft(run)
           \/ run'.status = "returned" /\ run'.p = run.p
                 /\ peek_expanded_token(run.p).cat \in {"EndGroup", "MathShift", "None"}
           \/ run'.status = "panicked"
    /\ run.call = "convert_math_list_to_horizontal_list" =>
           /\ run'.calls \in {run.calls, run.calls + 1}
           /\ run'.calls = run.calls + 1 <=> Len(run'.stack) = Len(run.stack) + 1
           /\ Len(run'.stack) = Len(run.stack) + 1 =>
                  LET a == Top(run)
                  IN  /\ a.pass = 1
                      /\ a.list[a.i].nucleus.field = "MathList"
                      /\ Top(run').list = a.list[a.i].nucleus.list
                      /\ Top(run').start_style = a.current_style

\* a translation that has returned has begun one activation for the call
\* and one for each nucleus that is a math list; one that has panicked, no
\* more than that
CallsCounted ==
    (run.call = "convert_math_list_to_horizontal_list") =>
        /\ run.calls <= 1 + MathListNuclei(math_in.list, 1)
        /\ run.status = "returned" => run.calls = 1 + MathListNuclei(math_in.list, 1)

(***************************************************************************)
(* C39: parse_math_list terminates on a finite input without macros, and   *)
(* convert_math_list_to_horizontal_list on a finite math list.  Every      *)
(* iteration of the loop of parse_math_list reads at least one token, or   *)
(* leaves the loop at an EndGroup, a MathShift or the end of the input     *)
(* without reading it, or fails; the translator begins one activation for  *)
(* the call and one for each nucleus that is a math list; and every run    *)
(* comes to its end, where it has the result of the call.                  *)
(***************************************************************************)
C39_ParserAndTranslatorTerminate ==
    /\ [][StepMakesProgress]_vars
    /\ [](RunAgreesWithCall /\ CallsCounted)
    /\ <>RunOver

\* a^{a}_{a}$a is parsed in nine iterations, two of them entering a group
\* and two leaving one, and returns before the MathShift
C39_Witness ==
    /\ run.call = "parse_math_list"
    /\ Len(math_in.tokens) = 11
    /\ math_in.tokens[10] = MathShiftTok
    /\ run.status = "returned"
    /\ TokensLeft(run) = 2
    /\ Len(run.p.scope_log) = 4
    /\ Len(run.list) = 1

\* a translation with a list nested in a list nested in the outer list has
\* returned after three activations
C39_TranslatorWitness ==
    /\ run.call = "convert_math_list_to_horizontal_list"
    /\ run.status = "returned"
    /\ run.calls = 3
    /\ Len(math_in.list) = 1
    /\ run.result # <<>>

====
